---- MODULE Spec2Model ----
(***************************************************************************)
(* Verification model of pcr-oracle's measurement replay engine.          *)
(*                                                                         *)
(*   Spec       the TCG event-log reader (src/src/eventlog.c, lines 38 to  *)
(*              323): a byte-level event log is read record by record.     *)
(*   SpecEvent  the event parser and the rehash engine (src/src/eventlog.c *)
(*              lines 558 to 1120) applied to one event.                   *)
(*   SpecPolicy the TPM policy builder (src/src/pcr-policy.c): one process *)
(*              sets the SRK key size and runs one seal, unseal or policy  *)
(*              operation against the TPM.                                 *)
(*   SpecVercmp the version comparison of the boot entry sort              *)
(*              (src/src/sd-boot.c lines 177 to 264).                      *)
(*   SpecIpl    the parser of IPL events (src/src/eventlog.c lines 1044 to *)
(*              1119) on every PCR index.                                  *)
(*   SpecVercmpLoop  vercmp, one turn of its loop at a time.               *)
(*   SpecTokenId     get_token_id (src/src/sd-boot.c lines 302 to 329).    *)
(*   SpecEntryList   sdb_get_entry_list and sdb_get_next_kernel            *)
(*              (src/src/sd-boot.c lines 331 to 414).                      *)
(*   SpecPcrMask     the PCR mask of an entry of the systemd policy file   *)
(*              (src/src/sd-boot.c lines 419 to 461).                      *)
(*   SpecPolicyFile  sdb_policy_file_add_entry (src/src/sd-boot.c lines    *)
(*              463 to 556).                                               *)
(***************************************************************************)
EXTENDS Integers, Sequences, FiniteSets, TLC

VARIABLES
    \* ---- event log reader (struct tpm_event_log_reader) ----
    file,           \* the event log behind log->fd: [bytes, pad]
    recs,           \* the record descriptors the file was built from (history)
    pos,            \* file offset of log->fd
    tpm_version,    \* log->tpm_version
    event_count,    \* log->event_count
    tcg2_info,      \* log->tcg2_info
    tpm_startup,    \* log->tpm_startup
    status,         \* result of the last event_log_read_next call
    events,         \* the events handed to the caller so far, in order
    rdlog,          \* one entry per record read: offset, layout, disposition
    oob,            \* table indices written outside tcg2_info.algorithms
    \* ---- one event under tpm_event_parse / tpm_parsed_event_rehash ----
    ev,             \* the tpm_event_t
    ctx,            \* the tpm_event_log_rehash_ctx_t
    env,            \* answers of the collaborators (sd-boot predicates)
    heap,           \* number of tpm_parsed_event_t objects allocated so far
    calls,          \* history of tpm_event_parse calls
    rehashed,       \* result of the last tpm_parsed_event_rehash call
    \* ---- the TPM policy builder ----
    SRK_template,   \* the static SRK_template
    sets,           \* number of set_srk_rsa_bits calls so far
    run,            \* the operation the process ran, its inputs and its result
    tpm,            \* ESYS/TPM and file system state left behind by the operation
    \* ---- version comparison ----
    va, vb, vc,     \* three version strings
    vout,           \* results of the vercmp calls on them
    vloop,          \* one call of vercmp, turn by turn: the cursors a and b
    \* ---- systemd-boot entries and the policy file ----
    boot,           \* /etc and the ESP as get_token_id and readdir find them
    sdbout,         \* what get_token_id and sdb_get_next_kernel handed back
    doc,            \* the JSON policy file and the add_entry calls made on it
    entry           \* a policy entry and the PCR mask written to and read from it

rvars == <<file, recs, pos, tpm_version, event_count, tcg2_info, tpm_startup,
           status, events, rdlog, oob>>
evars == <<ev, ctx, env, heap, calls, rehashed>>
pvars == <<SRK_template, sets, run, tpm>>
vvars == <<va, vb, vc, vout>>
svars == <<vloop, boot, sdbout, doc, entry>>
vars == <<rvars, evars, pvars, vvars, svars>>

(***************************************************************************)
(* Bounds of the model.                                                    *)
(***************************************************************************)
MaxRecords == 3
MaxCut == 1

(***************************************************************************)
(* Generic helpers.                                                        *)
(***************************************************************************)
Min(a, b) == IF a < b THEN a ELSE b

\* A 32-bit unsigned value is held as <<high 16 bits, low 16 bits>>.
U32(n) == <<n \div 65536, n % 65536>>
U32Int(x) == x[1] * 65536 + x[2]
U32Gt(x, n) == x[1] > n \div 65536 \/ (x[1] = n \div 65536 /\ x[2] > n % 65536)

(***************************************************************************)
(* Program constants.                                                      *)
(***************************************************************************)
TPM_EVENT_LOG_MAX_ALGOS == 64
TPM2_ALG_LAST == 68
TPM2_ALG_SHA1 == 4
MaxEventSize == 1048576
MaxPcrCount == 32
SigLen == 16
LocalityEventSize == 17
TPM2_EVENT_NO_ACTION == U32(3)
SpecIdSignature == <<83, 112, 101, 99, 32, 73, 68, 32, 69, 118, 101, 110, 116, 48, 51, 0>>
StartupLocalitySignature == <<83, 116, 97, 114, 116, 117, 112, 76, 111, 99, 97, 108, 105, 116, 121, 0>>

NULL == [null |-> TRUE]

\* digest_by_tpm_alg: the built-in digest registry (id -> digest size).
BuiltinAlgos == (4 :> 20) @@ (11 :> 32) @@ (12 :> 48) @@ (13 :> 64)
digest_by_tpm_alg(algo_id) ==
    IF algo_id \in DOMAIN BuiltinAlgos
    THEN [tcg_id |-> algo_id, digest_size |-> BuiltinAlgos[algo_id], openssl_name |-> <<"builtin", algo_id>>]
    ELSE NULL

\* __digest_by_tpm_alg: lookup in a caller-supplied table of num_algos entries.
digest_by_table(algo_id, algorithms, num_algos) ==
    IF algo_id >= num_algos THEN NULL
    ELSE IF algorithms[algo_id].digest_size = 0 THEN NULL
    ELSE algorithms[algo_id]

(***************************************************************************)
(* The file behind log->fd: explicit bytes followed by `pad` zero bytes.   *)
(***************************************************************************)
FileLen(f) == Len(f.bytes) + f.pad
ByteAt(f, off) == IF off < Len(f.bytes) THEN f.bytes[off + 1] ELSE 0
Avail(f, off) == FileLen(f) - off

\* read(fd, buf, len): the number of bytes a read at offset off delivers.
ReadCount(f, off, len) == Min(len, Avail(f, off))

\* The bytes of [off, off+len) as [data, zeros]: the explicit bytes and the
\* number of pad zeros that follow them.
ReadBytes(f, off, len) ==
    LET inb == IF off >= Len(f.bytes) THEN 0 ELSE Min(len, Len(f.bytes) - off)
    IN [data |-> SubSeq(f.bytes, off + 1, off + inb), zeros |-> len - inb]

LE16At(f, off) == ByteAt(f, off) + 256 * ByteAt(f, off + 1)
LE32At(f, off) == <<LE16At(f, off + 2), LE16At(f, off)>>

\* An event body (or buffer_t over it): [data, zeros].
BodySize(b) == Len(b.data) + b.zeros
BodyByte(b, i) == IF i < Len(b.data) THEN b.data[i + 1] ELSE 0
BodyPrefixIs(b, sig) ==
    /\ BodySize(b) >= Len(sig)
    /\ \A i \in 1..Len(sig) : BodyByte(b, i - 1) = sig[i]

(***************************************************************************)
(* Event log reader: src/src/eventlog.c lines 65 to 323.                   *)
(***************************************************************************)
event_log_get_algo_info(info, algo_id) ==
    LET algo == digest_by_tpm_alg(algo_id)
    IN IF algo # NULL THEN algo
       ELSE digest_by_table(algo_id, info.algorithms, TPM_EVENT_LOG_MAX_ALGOS)

\* __read_exactly: TRUE when the read delivers all len bytes (else fatal).
read_exactly_ok(f, off, len) == ReadCount(f, off, len) = len

\* A mutant of event_log_read_digest: every digest is read as 20 bytes.
event_log_read_digest_mut(f, info, off, algo_id) ==
    LET algo == event_log_get_algo_info(info, algo_id)
    IN IF algo = NULL THEN [out |-> "unknown_algo", off |-> off]
       ELSE IF ~read_exactly_ok(f, off, 20) THEN [out |-> "short_read", off |-> off]
       ELSE [out |-> "ok",
             dgst |-> [algo_id |-> algo_id, size |-> algo.digest_size,
                       data |-> ReadBytes(f, off, 20)],
             off |-> off + 20]

\* event_log_read_digest at offset off: [out, dgst, off].
event_log_read_digest(f, info, off, algo_id) ==
    LET algo == event_log_get_algo_info(info, algo_id)
    IN IF algo = NULL THEN [out |-> "unknown_algo", off |-> off]
       ELSE IF ~read_exactly_ok(f, off, algo.digest_size) THEN [out |-> "short_read", off |-> off]
       ELSE [out |-> "ok",
             dgst |-> [algo_id |-> algo_id, size |-> algo.digest_size,
                       data |-> ReadBytes(f, off, algo.digest_size)],
             off |-> off + algo.digest_size]

\* event_log_resize_pcrs: TRUE when the count is accepted.
event_log_resize_pcrs_ok(count) == ~U32Gt(count, MaxPcrCount)

event_log_read_pcrs_tpm1(f, info, off) ==
    LET d == event_log_read_digest(f, info, off, TPM2_ALG_SHA1)
    IN IF d.out # "ok" THEN [out |-> d.out, off |-> off]
       ELSE [out |-> "ok", pcr_values |-> <<d.dgst>>, off |-> d.off]

\* The loop of event_log_read_pcrs_tpm2, from digest i on.
RECURSIVE read_pcrs_loop(_, _, _, _, _, _)
read_pcrs_loop(f, info, off, i, count, acc) ==
    IF i >= count THEN [out |-> "ok", pcr_values |-> acc, off |-> off]
    ELSE IF ~read_exactly_ok(f, off, 2) THEN [out |-> "short_read", off |-> off]
    ELSE LET d == event_log_read_digest(f, info, off + 2, LE16At(f, off))
         IN IF d.out # "ok" THEN [out |-> d.out, off |-> off]
            ELSE read_pcrs_loop(f, info, d.off, i + 1, count, Append(acc, d.dgst))

event_log_read_pcrs_tpm2(f, info, off) ==
    IF ~read_exactly_ok(f, off, 4) THEN [out |-> "short_read", off |-> off]
    ELSE LET count == LE32At(f, off)
         IN IF ~event_log_resize_pcrs_ok(count) THEN [out |-> "bad_pcr_count", off |-> off]
            ELSE read_pcrs_loop(f, info, off + 4, 0, U32Int(count), <<>>)

\* __read_u32le_or_eof at offset off: "eof", "short_read" or "ok".
read_u32le_or_eof(f, off) ==
    IF ReadCount(f, off, 4) = 0 THEN "eof"
    ELSE IF ReadCount(f, off, 4) # 4 THEN "short_read"
    ELSE "ok"

\* The size test of event_log_read_next (a mutant rejects exactly 1 MiB).
event_size_accepted_mut(event_size) == ~U32Gt(event_size, MaxEventSize - 1)
event_size_accepted(event_size) == ~U32Gt(event_size, MaxEventSize)

\* Lines 210 to 233 of event_log_read_next: one record from offset l.pos.
\* out is "eof", "record" or the reason of the fatal error.
ReadRecord(f, l) ==
    IF read_u32le_or_eof(f, l.pos) # "ok" THEN [out |-> read_u32le_or_eof(f, l.pos)]
    ELSE IF ~read_exactly_ok(f, l.pos + 4, 4) THEN [out |-> "short_read"]
    ELSE
      LET file_offset == l.pos + 8
          p == IF l.tpm_version = 1
               THEN event_log_read_pcrs_tpm1(f, l.tcg2_info, file_offset)
               ELSE event_log_read_pcrs_tpm2(f, l.tcg2_info, file_offset)
      IN IF p.out # "ok" THEN [out |-> p.out]
         ELSE IF ~read_exactly_ok(f, p.off, 4) THEN [out |-> "short_read"]
         ELSE LET event_size == LE32At(f, p.off)
              IN IF ~event_size_accepted(event_size) THEN [out |-> "oversized"]
                 ELSE IF ~read_exactly_ok(f, p.off + 4, U32Int(event_size)) THEN [out |-> "short_read"]
                 ELSE [out |-> "record",
                       off |-> p.off + 4 + U32Int(event_size),
                       layout |-> IF l.tpm_version = 1 THEN "v1" ELSE "v2",
                       ev |-> [pcr_index |-> LE32At(f, l.pos),
                               event_type |-> LE32At(f, l.pos + 4),
                               file_offset |-> file_offset,
                               pcr_values |-> p.pcr_values,
                               event_size |-> U32Int(event_size),
                               event_data |-> ReadBytes(f, p.off + 4, U32Int(event_size))]]

\* buffer_get_u8 / u16le / u32le on an event body read from position rpos.
buffer_has(b, rpos, n) == rpos + n <= BodySize(b)
buffer_u8(b, rpos) == BodyByte(b, rpos)
buffer_u16le(b, rpos) == BodyByte(b, rpos) + 256 * BodyByte(b, rpos + 1)
buffer_u32le(b, rpos) == <<buffer_u16le(b, rpos + 2), buffer_u16le(b, rpos)>>

\* The loop of __tpm_event_parse_tcg2_info over the algorithm table, entry i.
\* res: [ok, info, oob]; oob collects table indices >= TPM_EVENT_LOG_MAX_ALGOS
\* that the code writes to.
RECURSIVE parse_algos_loop(_, _, _, _, _, _)
parse_algos_loop(b, rpos, i, count, info, oobw) ==
    IF ~U32Gt(count, i) THEN [ok |-> TRUE, info |-> info, oob |-> oobw]
    ELSE IF ~buffer_has(b, rpos, 2) \/ ~buffer_has(b, rpos + 2, 2)
         THEN [ok |-> FALSE, info |-> info, oob |-> oobw]
    ELSE
      LET algo_id == buffer_u16le(b, rpos)
          algo_size == buffer_u16le(b, rpos + 2)
      IN IF algo_id > TPM2_ALG_LAST
         THEN parse_algos_loop(b, rpos + 4, i + 1, count, info, oobw)
         ELSE IF digest_by_tpm_alg(algo_id) = NULL
         THEN IF algo_id \in DOMAIN info.algorithms
              THEN parse_algos_loop(b, rpos + 4, i + 1, count,
                     [info EXCEPT !.algorithms[algo_id] =
                         [tcg_id |-> 0, digest_size |-> algo_size,
                          openssl_name |-> <<"TPM2_ALG_", algo_id>>]], oobw)
              ELSE parse_algos_loop(b, rpos + 4, i + 1, count, info, oobw \cup {algo_id})
         ELSE parse_algos_loop(b, rpos + 4, i + 1, count, info, oobw)

\* A mutant of __tpm_event_parse_tcg2_info: the minor and major version
\* bytes are taken in the opposite order.
tcg2_info_swapped(e, info) ==
    LET b == e.event_data
    IN IF ~buffer_has(b, SigLen, 12) THEN [ok |-> FALSE, info |-> info, oob |-> {}]
       ELSE parse_algos_loop(b, SigLen + 12, 0, buffer_u32le(b, SigLen + 8),
              [info EXCEPT !.platform_class = buffer_u32le(b, SigLen),
                           !.spec_version_major = buffer_u8(b, SigLen + 4),
                           !.spec_version_minor = buffer_u8(b, SigLen + 5),
                           !.spec_errata = buffer_u8(b, SigLen + 6),
                           !.uintn_size = buffer_u8(b, SigLen + 7)], {})

__tpm_event_parse_tcg2_info(e, info) ==
    LET b == e.event_data
    IN IF ~buffer_has(b, SigLen, 12) THEN [ok |-> FALSE, info |-> info, oob |-> {}]
       ELSE parse_algos_loop(b, SigLen + 12, 0, buffer_u32le(b, SigLen + 8),
              [info EXCEPT !.platform_class = buffer_u32le(b, SigLen),
                           !.spec_version_minor = buffer_u8(b, SigLen + 4),
                           !.spec_version_major = buffer_u8(b, SigLen + 5),
                           !.spec_errata = buffer_u8(b, SigLen + 6),
                           !.uintn_size = buffer_u8(b, SigLen + 7)], {})

\* The two tests of lines 236 to 256.
IsNoActionPcr0(e) ==
    /\ e.event_type = TPM2_EVENT_NO_ACTION
    /\ e.pcr_index = U32(0)
    /\ e.event_size >= SigLen
IsHeaderCandidate(e, l) ==
    /\ e.event_type = TPM2_EVENT_NO_ACTION
    /\ e.pcr_index = U32(0)
    /\ l.event_count = 0
    /\ e.event_size >= SigLen
IsSpecIdEvent(e) == BodyPrefixIs(e.event_data, SpecIdSignature)
IsStartupLocality(e) ==
    /\ BodyPrefixIs(e.event_data, StartupLocalitySignature)
    /\ e.event_size = LocalityEventSize

\* event_log_read_next, the whole call including its `goto again' loop.
\* ub is the outcome the build produces for a write past the algorithm table:
\* "continue" or "abort".  Result: [out, l, ev, trace, oob].
RECURSIVE event_log_read_next(_, _, _, _, _)

\* One entry of the read history: where the record started, the layout it was
\* read with and what the reader did with it.
TraceEntry(l, r, d) ==
    [offset |-> l.pos, layout |-> IF l.tpm_version = 1 THEN "v1" ELSE "v2", disp |-> d,
     body_off |-> IF r.out = "record" THEN r.off - r.ev.event_size ELSE -1,
     spec_id |-> r.out = "record" /\ IsNoActionPcr0(r.ev) /\ IsSpecIdEvent(r.ev),
     locality |-> r.out = "record" /\ IsNoActionPcr0(r.ev) /\ IsStartupLocality(r.ev)]

\* Lines 240 to 248: the record r is a Spec ID header, h the result of parsing
\* it; l1 is the reader after the record, t the history including it.
read_next_header(f, l1, ub, t, oobw, h) ==
    IF ~h.ok
    THEN [out |-> "fatal", l |-> [l1 EXCEPT !.tcg2_info = h.info], trace |-> t, oob |-> oobw \cup h.oob]
    ELSE IF h.oob # {} /\ ub = "abort"
    THEN [out |-> "abort", l |-> [l1 EXCEPT !.tcg2_info = h.info], trace |-> t, oob |-> oobw \cup h.oob]
    ELSE event_log_read_next(f, [l1 EXCEPT !.tcg2_info = h.info,
                                           !.tpm_version = h.info.spec_version_major],
                             ub, t, oobw \cup h.oob)

\* Lines 235 to 259: what becomes of the record r read from l.pos.
read_next_dispatch(f, l, ub, trace, oobw, r) ==
    IF r.out = "eof" THEN [out |-> "eof", l |-> l, trace |-> trace, oob |-> oobw]
    ELSE IF r.out # "record"
    THEN [out |-> "fatal", l |-> l, oob |-> oobw, trace |-> Append(trace, TraceEntry(l, r, r.out))]
    ELSE IF IsHeaderCandidate(r.ev, l) /\ IsSpecIdEvent(r.ev)
    THEN read_next_header(f, [l EXCEPT !.pos = r.off], ub,
                          Append(trace, TraceEntry(l, r, IF __tpm_event_parse_tcg2_info(r.ev, l.tcg2_info).ok
                                                      THEN "header" ELSE "bad_header")),
                          oobw, __tpm_event_parse_tcg2_info(r.ev, l.tcg2_info))
    ELSE IF IsHeaderCandidate(r.ev, l) /\ IsStartupLocality(r.ev)
    THEN event_log_read_next(f,
            [l EXCEPT !.pos = r.off,
                      !.tpm_startup = [valid_pcr0_locality |-> TRUE,
                                       pcr0_locality |-> BodyByte(r.ev.event_data, SigLen)]],
            ub, Append(trace, TraceEntry(l, r, "locality")), oobw)
    ELSE [out |-> "event",
          l |-> [l EXCEPT !.pos = r.off, !.event_count = l.event_count + 1],
          ev |-> r.ev @@ [event_index |-> l.event_count],
          trace |-> Append(trace, TraceEntry(l, r, "event")), oob |-> oobw]

event_log_read_next(f, l, ub, trace, oobw) ==
    read_next_dispatch(f, l, ub, trace, oobw, ReadRecord(f, l))

event_log_get_event_count(l) == l.event_count
event_log_get_tpm_version(l) == l.tpm_version

\* event_log_get_locality: [ok, loc].
event_log_get_locality(l, pcr_index) ==
    IF pcr_index # 0 THEN [ok |-> FALSE]
    ELSE IF ~l.tpm_startup.valid_pcr0_locality THEN [ok |-> FALSE]
    ELSE [ok |-> TRUE, loc |-> l.tpm_startup.pcr0_locality]

(***************************************************************************)
(* Event logs the reader is run on.  A log is the concatenation of the     *)
(* encodings of up to MaxRecords records and one closing record, with the  *)
(* last `cut' bytes missing.  The first record is written in the legacy    *)
(* layout, the following ones in the layout `lay'.                         *)
(***************************************************************************)
LE16(n) == <<n % 256, n \div 256>>
LE32(n) == LE16(n % 65536) \o LE16(n \div 65536)
DigestData(seed, n) == [i \in 1..n |-> (seed * 16 + i) % 256]

RECURSIVE EncodeDigests(_, _)
EncodeDigests(digs, seed) ==
    IF digs = <<>> THEN <<>>
    ELSE LE16(digs[1][1]) \o DigestData(seed, digs[1][2]) \o EncodeDigests(Tail(digs), seed + 1)

RECURSIVE EncodeAlgos(_)
EncodeAlgos(algos) ==
    IF algos = <<>> THEN <<>>
    ELSE LE16(algos[1][1]) \o LE16(algos[1][2]) \o EncodeAlgos(Tail(algos))

\* Body of a Spec ID Event03 header (spec section 6, event-log byte format).
SpecIdBody(major, algos) ==
    SpecIdSignature \o LE32(0) \o <<0, major, 0, 2>> \o LE32(Len(algos)) \o EncodeAlgos(algos)

\* The algorithm table a header kind declares: <<id, size>> pairs.
HeaderAlgos(k) ==
    CASE k = "hdr2" -> <<<<11, 32>>, <<18, 6>>>>
      [] k = "hdr1" -> <<<<4, 20>>>>
      [] k = "hdrsk" -> <<<<4, 32>>, <<4096, 32>>>>
      [] k = "hdr65" -> <<<<65, 32>>>>
      [] OTHER -> <<>>
HeaderMajor(k) == IF k = "hdr1" THEN 1 ELSE 2

\* What a record kind holds: pcr, type, seed of its digest bytes, the digests
\* of its crypto-agile form, its declared size and its body bytes.
Content(k) ==
    CASE k = "hdr2" -> [pcr |-> 0, type |-> 3, seed |-> 0, digs |-> <<<<4, 20>>>>,
                        body |-> SpecIdBody(HeaderMajor(k), HeaderAlgos(k))]
      [] k = "hdr1" -> [pcr |-> 0, type |-> 3, seed |-> 0, digs |-> <<<<4, 20>>>>,
                        body |-> SpecIdBody(HeaderMajor(k), HeaderAlgos(k))]
      [] k = "hdrsk" -> [pcr |-> 0, type |-> 3, seed |-> 0, digs |-> <<<<4, 20>>>>,
                        body |-> SpecIdBody(HeaderMajor(k), HeaderAlgos(k))]
      [] k = "hdr65" -> [pcr |-> 0, type |-> 3, seed |-> 0, digs |-> <<<<4, 20>>>>,
                        body |-> SpecIdBody(HeaderMajor(k), HeaderAlgos(k))]
      [] k = "hdrshort" -> [pcr |-> 0, type |-> 3, seed |-> 0, digs |-> <<<<4, 20>>>>,
                        body |-> SpecIdSignature \o <<0, 0, 0, 0>>]
      [] k = "loc" -> [pcr |-> 0, type |-> 3, seed |-> 1, digs |-> <<<<4, 20>>, <<11, 32>>>>,
                        body |-> StartupLocalitySignature \o <<3>>]
      [] k = "sep" -> [pcr |-> 7, type |-> 4, seed |-> 2, digs |-> <<<<4, 20>>, <<11, 32>>>>,
                        body |-> <<0, 0, 0, 0>>]
      [] k = "ipl" -> [pcr |-> 8, type |-> 13, seed |-> 4, digs |-> <<<<11, 32>>, <<18, 6>>>>,
                        body |-> <<103, 0>>]
      [] k = "m4096" -> [pcr |-> 9, type |-> 13, seed |-> 6, digs |-> <<<<4096, 32>>>>,
                        body |-> <<>>]
      [] k = "big" -> [pcr |-> 7, type |-> 4, seed |-> 8, digs |-> <<<<11, 32>>>>,
                        body |-> <<>>]
      [] k = "huge" -> [pcr |-> 7, type |-> 4, seed |-> 9, digs |-> <<<<11, 32>>>>,
                        body |-> <<>>]

DeclaredSize(k) ==
    CASE k = "big" -> MaxEventSize
      [] k = "huge" -> MaxEventSize + 1
      [] OTHER -> Len(Content(k).body)

MidKinds == {"hdr2", "hdr1", "hdrsk", "hdr65", "loc", "sep", "ipl", "m4096"}
LastKinds == {"none", "hdrshort", "big", "huge", "m33", "frag3", "frag6"}

\* The bytes of one record of kind k in the given layout.
EncodeRecord(k, layout) ==
    CASE k = "none" -> <<>>
      [] k = "frag3" -> <<1, 2, 3>>
      [] k = "frag6" -> <<7, 0, 0, 0, 4, 0>>
      [] k = "m33" -> LE32(7) \o LE32(4) \o LE32(MaxPcrCount + 1)
      [] OTHER ->
           LET c == Content(k)
           IN LE32(c.pcr) \o LE32(c.type)
              \o (IF layout = "v1" THEN DigestData(c.seed, 20)
                  ELSE LE32(Len(c.digs)) \o EncodeDigests(c.digs, c.seed))
              \o LE32(DeclaredSize(k)) \o c.body

RECURSIVE EncodeLog(_, _, _)
EncodeLog(ks, lay, first) ==
    IF ks = <<>> THEN <<>>
    ELSE EncodeRecord(ks[1], IF first THEN "v1" ELSE lay) \o EncodeLog(Tail(ks), lay, FALSE)

Kinds(r) == IF r.last = "none" THEN r.mid ELSE Append(r.mid, r.last)

\* The file of a log description r = [mid, last, lay, cut].
MakeFile(r) ==
    LET full == EncodeLog(Kinds(r), r.lay, TRUE)
        pad0 == IF r.last = "big" THEN MaxEventSize ELSE 0
    IN IF pad0 > 0 THEN [bytes |-> full, pad |-> pad0 - r.cut]
       ELSE [bytes |-> SubSeq(full, 1, Len(full) - Min(r.cut, Len(full))), pad |-> 0]

MidSeqs == UNION {[1..n -> MidKinds] : n \in 0..(MaxRecords - 1)}
LogDescs == [mid : MidSeqs, last : LastKinds, lay : {"v1", "v2"}, cut : 0..MaxCut]

(***************************************************************************)
(* Specification of the reader.                                            *)
(***************************************************************************)
EmptyAlgo == [tcg_id |-> 0, digest_size |-> 0, openssl_name |-> <<>>]

\* calloc'ed reader of event_log_open.
InitReader ==
    /\ pos = 0
    /\ tpm_version = 1
    /\ event_count = 0
    /\ tcg2_info = [platform_class |-> U32(0), spec_version_major |-> 0,
                    spec_version_minor |-> 0, spec_errata |-> 0, uintn_size |-> 0,
                    algorithms |-> [i \in 0..(TPM_EVENT_LOG_MAX_ALGOS - 1) |-> EmptyAlgo]]
    /\ tpm_startup = [valid_pcr0_locality |-> FALSE, pcr0_locality |-> 0]
    /\ status = "none"
    /\ events = <<>>
    /\ rdlog = <<>>
    /\ oob = {}

IdleEvent ==
    /\ ev = NULL
    /\ ctx = NULL
    /\ env = NULL
    /\ heap = 0
    /\ calls = <<>>
    /\ rehashed = NULL

IdlePolicy ==
    /\ SRK_template = NULL
    /\ sets = 0
    /\ run = NULL
    /\ tpm = NULL

IdleVercmp ==
    /\ va = NULL
    /\ vb = NULL
    /\ vc = NULL
    /\ vout = NULL

IdleSdb ==
    /\ vloop = NULL
    /\ boot = NULL
    /\ sdbout = NULL
    /\ doc = NULL
    /\ entry = NULL

Init ==
    /\ recs \in LogDescs
    /\ file = MakeFile(recs)
    /\ InitReader
    /\ IdleEvent
    /\ IdlePolicy
    /\ IdleVercmp
    /\ IdleSdb

Reader == [pos |-> pos, tpm_version |-> tpm_version, event_count |-> event_count,
           tcg2_info |-> tcg2_info, tpm_startup |-> tpm_startup]

\* One call of event_log_read_next by the scan loop.  After a fatal error the
\* process has exited; after NULL the caller stops reading.
ReadNext ==
    /\ status \in {"none", "event"}
    /\ \E ub \in {"continue", "abort"} :
         LET r == event_log_read_next(file, Reader, ub, <<>>, {})
         IN /\ pos' = r.l.pos
            /\ tpm_version' = r.l.tpm_version
            /\ event_count' = r.l.event_count
            /\ tcg2_info' = r.l.tcg2_info
            /\ tpm_startup' = r.l.tpm_startup
            /\ status' = r.out
            /\ events' = IF r.out = "event" THEN Append(events, r.ev) ELSE events
            /\ rdlog' = rdlog \o r.trace
            /\ oob' = oob \cup r.oob
    /\ UNCHANGED <<file, recs, evars, pvars, vvars, svars>>

Next == ReadNext

Spec == Init /\ [][Next]_vars

(***************************************************************************)
(* Vocabulary of the reader claims: what the log descriptions promise.     *)
(***************************************************************************)
HdrKinds == {"hdr2", "hdr1", "hdrsk", "hdr65", "hdrshort"}
MeasKinds == {"sep", "ipl", "m4096", "big"}

Front(q) == SubSeq(q, 1, Len(q) - 1)
LastOf(q) == q[Len(q)]

\* Kinds whose crypto-agile digests are all built-in or declared by header h.
AgileOk(h) == IF h = "hdr2" THEN {"sep", "ipl", "big"} ELSE {"sep", "big"}

\* A well-formed sequence of records: a legacy log (optionally opened by a
\* header of major version 1 or a StartupLocality record), or a crypto-agile
\* log opened by a header, optionally followed by StartupLocality.
WellFormedKinds(ks, lay) ==
    \/ ks = <<>>
    \/ /\ lay = "v1"
       /\ ks[1] \in MeasKinds \cup {"loc", "hdr1"}
       /\ \A i \in 2..Len(ks) : ks[i] \in MeasKinds \/ (i = 2 /\ ks[1] = "hdr1" /\ ks[i] = "loc")
    \/ /\ lay = "v2"
       /\ ks[1] \in {"hdr2", "hdrsk"}
       /\ \A i \in 2..Len(ks) : ks[i] \in AgileOk(ks[1]) \/ (i = 2 /\ ks[i] = "loc")

WellFormed(r) == r.cut = 0 /\ Kinds(r) # <<>> /\ WellFormedKinds(Kinds(r), r.lay)

\* The event a measurement record of kind k must come back as.
ExpEvent(k, layout) ==
    LET c == Content(k)
    IN [pcr_index |-> U32(c.pcr), event_type |-> U32(c.type),
        digests |-> IF layout = "v1"
                    THEN <<[algo_id |-> TPM2_ALG_SHA1, data |-> DigestData(c.seed, 20)]>>
                    ELSE [i \in 1..Len(c.digs) |->
                            [algo_id |-> c.digs[i][1],
                             data |-> DigestData(c.seed + i - 1, c.digs[i][2])]]]

RECURSIVE MeasOf(_, _, _)
MeasOf(ks, lay, first) ==
    IF ks = <<>> THEN <<>>
    ELSE (IF ks[1] \in MeasKinds THEN <<ExpEvent(ks[1], IF first THEN "v1" ELSE lay)>> ELSE <<>>)
         \o MeasOf(Tail(ks), lay, FALSE)

SameAsSource(e, x) ==
    /\ e.pcr_index = x.pcr_index
    /\ e.event_type = x.event_type
    /\ Len(e.pcr_values) = Len(x.digests)
    /\ \A i \in 1..Len(x.digests) :
         /\ e.pcr_values[i].algo_id = x.digests[i].algo_id
         /\ e.pcr_values[i].data = [data |-> x.digests[i].data, zeros |-> 0]

\* C1: reader round trip.  For a well-formed log the events returned so far
\* are the measurement records of the log, in log order and one per record,
\* with pcr_index, event_type and digest bytes unchanged, event_index
\* 0, 1, 2, ... and event_count equal to the number of events returned; at
\* end-of-log every measurement record has been returned.
Theorem_C1 ==
    WellFormed(recs) =>
      LET m == MeasOf(Kinds(recs), recs.lay, TRUE)
      IN /\ status \notin {"fatal", "abort"}
         /\ Len(events) <= Len(m)
         /\ \A i \in 1..Len(events) :
              SameAsSource(events[i], m[i]) /\ events[i].event_index = i - 1
         /\ event_log_get_event_count(Reader) = Len(events)
         /\ status = "eof" => Len(events) = Len(m)

Witness_C1 ==
    /\ WellFormed(recs)
    /\ Kinds(recs)[1] = "hdr2"
    /\ status = "eof"
    /\ Len(events) = 2
    /\ Len(events[1].pcr_values) = 2

(***************************************************************************)
(* C2: the Spec ID header.                                                 *)
(***************************************************************************)
FirstComplete(r) == Len(Kinds(r)) >= 2 \/ (Len(Kinds(r)) = 1 /\ r.cut = 0)
HeadersIn(ks) == {i \in 1..Len(ks) : ks[i] \in HdrKinds}

\* Spec major version of the header that rdlog entry j was read from, taken
\* from the bytes of the file.
MajorAt(j) == ByteAt(file, rdlog[j].body_off + SigLen + 5)
\* Spec major version of the last header consumed before rdlog entry i.
MajorBefore(i) ==
    LET hs == {j \in 1..(i - 1) : rdlog[j].disp = "header"}
    IN MajorAt(CHOOSE j \in hs : \A k \in hs : k <= j)

\* The headers the reader has gone past: consumed, and followed by a further
\* record or by the end of the log.
PassedHeaders ==
    {j \in 1..Len(rdlog) : rdlog[j].disp = "header" /\ (j < Len(rdlog) \/ status = "eof")}
LastPassedHeader == CHOOSE j \in PassedHeaders : \A k \in PassedHeaders : k <= j

\* C2 as stated: when the first record is a Spec ID header, it is never
\* returned, tpm_version becomes the header's spec major version and every
\* following record is read with the crypto-agile layout.  Stated for logs
\* whose only Spec ID record is the first one and parses.
Counterexample_C2 ==
    (/\ Kinds(recs) # <<>>
     /\ Kinds(recs)[1] \in {"hdr2", "hdr1", "hdrsk"}
     /\ HeadersIn(Kinds(recs)) = {1}
     /\ FirstComplete(recs)
     /\ status # "none")
    => /\ \A i \in 1..Len(events) : events[i].file_offset # 8
       /\ tpm_version = HeaderMajor(Kinds(recs)[1])
       /\ \A i \in 2..Len(rdlog) : rdlog[i].layout = "v2"

\* C2 as amended: when the first record is a Spec ID header it is never
\* returned; a header too short to parse is fatal; once the reader has gone
\* past the header, tpm_version is the spec major version of the header
\* consumed last, and every following record is read with the crypto-agile
\* layout unless that version is 1, in which case the legacy layout is used.
Theorem_C2 ==
    (/\ Kinds(recs) # <<>>
     /\ Kinds(recs)[1] \in HdrKinds
     /\ FirstComplete(recs)
     /\ status # "none")
    => /\ \A i \in 1..Len(events) : events[i].file_offset # 8
       /\ rdlog[1].spec_id /\ rdlog[1].disp \in {"header", "bad_header"}
       /\ Kinds(recs)[1] = "hdrshort" <=> rdlog[1].disp = "bad_header"
       /\ rdlog[1].disp = "bad_header" => status = "fatal"
       /\ rdlog[1].disp = "header" =>
            /\ MajorAt(1) = HeaderMajor(Kinds(recs)[1])
            /\ \A i \in 2..Len(rdlog) :
                 rdlog[i].layout = (IF MajorBefore(i) = 1 THEN "v1" ELSE "v2")
            /\ event_log_get_tpm_version(Reader) =
                 (IF PassedHeaders = {} THEN 1 ELSE MajorAt(LastPassedHeader))

Witness_C2 ==
    /\ Kinds(recs) # <<>>
    /\ Kinds(recs)[1] = "hdr2"
    /\ status = "eof"
    /\ Len(events) = 2
    /\ tpm_version = 2
    /\ rdlog[2].layout = "v2"

\* A second witness of the amended case: a header of major version 1.
Witness_C2_legacy ==
    /\ Kinds(recs) # <<>>
    /\ Kinds(recs)[1] = "hdr1"
    /\ status = "eof"
    /\ Len(events) = 2
    /\ rdlog[2].layout = "v1"

(***************************************************************************)
(* C3, C4: StartupLocality and later Spec ID records.                      *)
(***************************************************************************)
\* C3: a StartupLocality record (NO_ACTION on PCR 0, body "StartupLocality\0"
\* plus one byte) is consumed wherever it appears in the log: it is not
\* returned as an event and event_log_get_locality(0) then reports body[16].
Counterexample_C3 ==
    \A i \in 1..Len(rdlog) :
        rdlog[i].locality =>
          /\ rdlog[i].disp = "locality"
          /\ event_log_get_locality(Reader, 0) = [ok |-> TRUE, loc |-> ByteAt(file, rdlog[i].body_off + SigLen)]

\* C4: only the first record of the log can be the Spec ID header; a record
\* with the Spec ID signature at a later position is returned as an ordinary
\* event (and so leaves tpm_version and the algorithm table alone).
Counterexample_C4 ==
    \A i \in 1..Len(rdlog) :
        (rdlog[i].spec_id /\ rdlog[i].offset > 0) => rdlog[i].disp = "event"

(***************************************************************************)
(* C5: the three outcomes of event_log_read_next.                          *)
(***************************************************************************)
RECURSIVE SumDigestBytes(_)
SumDigestBytes(pv) == IF pv = <<>> THEN 0 ELSE 2 + pv[1].size + SumDigestBytes(Tail(pv))

\* Offset of the first byte after the record event e was read from.
RecordEnd(e, lay) ==
    e.file_offset + (IF lay = "v1" THEN 20 ELSE 4 + SumDigestBytes(e.pcr_values)) + 4 + e.event_size

\* The log ends in a record that cannot be read: 1 to 3 stray bytes, a
\* record cut short, an event_size above 1 MiB or a digest count above 32,
\* after a well-formed sequence of records.
BadLast(r) ==
    /\ Kinds(r) # <<>>
    /\ WellFormedKinds(Front(Kinds(r)), r.lay)
    /\ Len(Front(Kinds(r))) > 0 \/ r.lay = "v1"
    /\ FileLen(MakeFile(r)) > Len(EncodeLog(Front(Kinds(r)), r.lay, TRUE))
    /\ r.cut > 0 \/ LastOf(Kinds(r)) \in {"frag3", "frag6", "huge", "m33"}

\* The log ends in a complete record whose event_size is exactly 1 MiB.
BigLast(r) ==
    /\ r.last = "big" /\ r.cut = 0
    /\ WellFormedKinds(Kinds(r), r.lay)

AllBefore(r) == Len(MeasOf(Front(Kinds(r)), r.lay, TRUE))

OutcomeState_C5 ==
    /\ status = "eof" => Avail(file, pos) = 0
    /\ status = "event" =>
         LET e == events[Len(events)]
             t == rdlog[Len(rdlog)]
         IN /\ e.event_size <= MaxEventSize
            /\ e.file_offset = t.offset + 8
            /\ RecordEnd(e, t.layout) = pos
            /\ pos <= FileLen(file)
    /\ status = "fatal" => Avail(file, rdlog[Len(rdlog)].offset) > 0

OutcomeStep_C5 ==
    /\ status' \in {"eof", "fatal", "abort"} => events' = events
    /\ status' = "event" => Len(events') = Len(events) + 1
    /\ Avail(file, pos) = 0 => status' = "eof"
    /\ Avail(file, pos) \in 1..3 => status' = "fatal"
    /\ (BadLast(recs) /\ Len(events) = AllBefore(recs)) => status' = "fatal"
    /\ (BigLast(recs) /\ Len(events) = AllBefore(recs)) =>
         /\ status' = "event"
         /\ events'[Len(events')].event_size = MaxEventSize

\* C5: a call of event_log_read_next reports end-of-log only when zero bytes
\* remain at the start of a record; it returns an event only when the whole
\* record was read and event_size <= 1 MiB (exactly 1 MiB is accepted); with
\* 1 to 3 bytes left at a record start, a short read inside a record,
\* event_size > 1 MiB or more than 32 digests it ends in the fatal error state
\* and returns no event.
Theorem_C5 == [](OutcomeState_C5) /\ [][OutcomeStep_C5]_vars

Witness_C5 ==
    /\ BigLast(recs)
    /\ status = "event"
    /\ events[Len(events)].event_size = MaxEventSize

Witness_C5_fatal ==
    /\ BadLast(recs)
    /\ recs.last = "m33"
    /\ status = "fatal"
    /\ rdlog[Len(rdlog)].disp = "bad_pcr_count"
    /\ Len(events) = 1

(***************************************************************************)
(* C6: algorithms declared by the header.                                  *)
(***************************************************************************)
DeclaredIds(h) == {HeaderAlgos(h)[j][1] : j \in 1..Len(HeaderAlgos(h))}
\* Every digest of record kind k is built-in or declared by header kind h.
DeclOk(h, k) ==
    \A j \in 1..Len(Content(k).digs) :
        Content(k).digs[j][1] \in DOMAIN BuiltinAlgos \cup DeclaredIds(h)

\* C6: every algorithm ID the header declares that is not built-in is
\* registered with its declared size, a built-in ID keeps its built-in size,
\* and a later record fails with the unknown-algorithm error only if its ID is
\* neither built-in nor declared.
Counterexample_C6 ==
    LET ks == Kinds(recs)
    IN (/\ ks # <<>>
        /\ ks[1] \in {"hdr2", "hdrsk", "hdr65"}
        /\ HeadersIn(ks) = {1}
        /\ recs.lay = "v2"
        /\ FirstComplete(recs)
        /\ status \in {"event", "eof", "fatal"})
       => /\ \A j \in 1..Len(HeaderAlgos(ks[1])) :
               LET id == HeaderAlgos(ks[1])[j][1]
                   size == HeaderAlgos(ks[1])[j][2]
                   algo == event_log_get_algo_info(tcg2_info, id)
               IN /\ algo # NULL
                  /\ algo.digest_size = (IF id \in DOMAIN BuiltinAlgos THEN BuiltinAlgos[id] ELSE size)
          /\ (\A i \in 2..Len(ks) : ks[i] \in MeasKinds \cup {"loc"} /\ DeclOk(ks[1], ks[i]))
               => \A i \in 1..Len(rdlog) : rdlog[i].disp # "unknown_algo"

(***************************************************************************)
(* Event parser and rehash engine: src/src/eventlog.c lines 409 to 1120.   *)
(* Strings are sequences of bytes; a C string ends before its first NUL.   *)
(***************************************************************************)
MaxCalls == 3

\* The code of a character of a string literal.
Ord(c) ==
    CASE c = " " -> 32 [] c = "(" -> 40 [] c = ")" -> 41 [] c = "-" -> 45
      [] c = "/" -> 47 [] c = ":" -> 58 [] c = "=" -> 61 [] c = "\\" -> 92
      [] c = "_" -> 95 [] c = "1" -> 49 [] c = "2" -> 50 [] c = "0" -> 48
      [] c = "a" -> 97 [] c = "b" -> 98 [] c = "c" -> 99 [] c = "d" -> 100
      [] c = "e" -> 101 [] c = "f" -> 102 [] c = "g" -> 103 [] c = "h" -> 104
      [] c = "i" -> 105 [] c = "k" -> 107 [] c = "l" -> 108 [] c = "m" -> 109
      [] c = "n" -> 110 [] c = "o" -> 111 [] c = "p" -> 112 [] c = "r" -> 114
      [] c = "s" -> 115 [] c = "t" -> 116 [] c = "u" -> 117 [] c = "w" -> 119
      [] c = "x" -> 120 [] c = "y" -> 121
Str(cs) == [i \in 1..Len(cs) |-> Ord(cs[i])]

\* strlen and the C string held in a byte sequence.
RECURSIVE strlen(_)
strlen(s) == IF s = <<>> \/ s[1] = 0 THEN 0 ELSE 1 + strlen(Tail(s))
CStr(s) == SubSeq(s, 1, strlen(s))
\* strncmp(s, prefix, strlen(prefix)) == 0
HasPrefix(s, prefix) == Len(s) >= Len(prefix) /\ SubSeq(s, 1, Len(prefix)) = prefix
\* strchr: index of the first byte c in s, 0 when there is none.
RECURSIVE strchr(_, _)
strchr(s, c) ==
    IF s = <<>> THEN 0
    ELSE IF s[1] = c THEN 1
    ELSE IF strchr(Tail(s), c) = 0 THEN 0 ELSE 1 + strchr(Tail(s), c)
isalpha(c) == c \in 65..90 \/ c \in 97..122

\* A null char pointer (no string holds the byte -1) and a null rehash
\* function pointer.
NullStr == <<-1>>
NoRehash == "NULL"

\* The bytes of an event body: its data followed by its zero padding.
BodyBytes(b) == b.data \o [i \in 1..b.zeros |-> 0]

\* __grub_file_parse: [ok, device, path].
NoFile == [device |-> NullStr, path |-> NullStr]
__grub_file_parse(value) ==
    IF value # <<>> /\ value[1] = Ord("/")
    THEN [ok |-> TRUE, device |-> NullStr, path |-> value]
    ELSE IF value # <<>> /\ value[1] = Ord("(")
    THEN IF strchr(value, Ord(")")) = 0
         THEN [ok |-> FALSE, device |-> NullStr, path |-> NullStr]
         ELSE [ok |-> TRUE,
               device |-> SubSeq(value, 2, strchr(value, Ord(")")) - 1),
               path |-> SubSeq(value, strchr(value, Ord(")")) + 1, Len(value))]
    ELSE [ok |-> FALSE, device |-> NullStr, path |-> NullStr]

\* What "%s" prints for an argument: the string, or for a null pointer what
\* the C library in use prints (the behaviour is undefined).
PrintfNull == Str(<<"(", "n", "u", "l", "l", ")">>)
Printf_s(s) == IF s = NullStr THEN PrintfNull ELSE s

\* __grub_file_join
__grub_file_join(grub_file) ==
    IF grub_file.device = NullStr THEN Printf_s(grub_file.path)
    ELSE <<Ord("(")>> \o grub_file.device \o <<Ord(")")>> \o Printf_s(grub_file.path)

\* sdb_is_kernel (src/src/sd-boot.c): the path lies under "/<token_id>/" and
\* one of its components starts with "linux-".
LinuxPrefix == Str(<<"l", "i", "n", "u", "x", "-">>)
sdb_is_kernel(token_id, application) ==
    /\ token_id # NullStr
    /\ HasPrefix(application, <<Ord("/")>> \o token_id \o <<Ord("/")>>)
    /\ \E i \in 1..Len(application) :
          /\ application[i] # Ord("/")
          /\ (i = 1 \/ application[i - 1] = Ord("/"))
          /\ HasPrefix(SubSeq(application, i, Len(application)), LinuxPrefix)

\* digest_compute: the digest is represented by what was hashed.
digest_compute(algo, data) == [algo |-> algo, of |-> "bytes", data |-> data]

\* runtime_digest_rootfs_file, runtime_digest_efi_file: [md, read]; the digest
\* of the file is represented by the file system and the path it was read
\* from; it is NULL when the file cannot be read.
runtime_digest_rootfs_file(algo, path, readable) ==
    [md |-> IF readable /\ path # NullStr THEN [algo |-> algo, of |-> "rootfs", data |-> path] ELSE NULL,
     read |-> [fs |-> "rootfs", path |-> path]]
runtime_digest_efi_file(algo, path, readable) ==
    [md |-> IF readable /\ path # NullStr THEN [algo |-> algo, of |-> "efi", data |-> path] ELSE NULL,
     read |-> [fs |-> "efi", path |-> path]]

\* tpm_event_get_digest: the digest the log holds for the algorithm.
RECURSIVE tpm_event_get_digest_from(_, _, _)
tpm_event_get_digest_from(pcr_values, i, algo) ==
    IF i > Len(pcr_values) THEN NULL
    ELSE IF pcr_values[i].algo_id = algo
    THEN [algo |-> algo, of |-> "log", data |-> pcr_values[i].data]
    ELSE tpm_event_get_digest_from(pcr_values, i + 1, algo)
tpm_event_get_digest(e, algo) == tpm_event_get_digest_from(e.pcr_values, 1, algo)

(***************************************************************************)
(* Event types and tag ids (values of the TCG PC Client specification and  *)
(* of the Linux EFI stub), as 32-bit values.                               *)
(***************************************************************************)
TPM2_EVENT_SEPARATOR == U32(4)
TPM2_EVENT_EVENT_TAG == U32(6)
TPM2_EVENT_IPL == U32(13)
TPM2_EFI_VARIABLE_DRIVER_CONFIG == <<32768, 1>>
TPM2_EFI_VARIABLE_BOOT == <<32768, 2>>
TPM2_EFI_BOOT_SERVICES_APPLICATION == <<32768, 3>>
TPM2_EFI_BOOT_SERVICES_DRIVER == <<32768, 4>>
TPM2_EFI_GPT_EVENT == <<32768, 6>>
TPM2_EFI_ACTION == <<32768, 7>>
TPM2_EFI_VARIABLE_AUTHORITY == <<32768, 224>>
INITRD_EVENT_TAG_ID == <<36667, 8940>>
LOAD_OPTIONS_EVENT_TAG_ID == <<36667, 8941>>
\* sizeof(((struct tag_event *) 0)->event_data)
TagEventDataMax == 1024

\* tpm_parsed_event_new: a zeroed parsed event with the given identity.
tpm_parsed_event_new(id, event_type) ==
    [id |-> id, event_type |-> event_type, event_subtype |-> "UNSET", rehash |-> NoRehash,
     grub_file |-> NoFile,
     grub_command |-> [string |-> NullStr, file |-> NoFile],
     systemd_event |-> [len |-> 0, string |-> NullStr],
     shim_event |-> [string |-> NullStr, efi_variable |-> NullStr],
     tag_event |-> [event_id |-> U32(0), event_data_len |-> U32(0), event_data |-> <<>>]]

\* Result of a parser that fails: nothing the caller keeps is changed.
ParseFailed(e, parsed) == [ok |-> FALSE, ev |-> e, parsed |-> parsed]

\* __tpm_event_grub_file_event_parse; gf is __grub_file_parse(value).
grub_file_event_parsed(e, parsed, gf) ==
    IF ~gf.ok THEN ParseFailed(e, parsed)
    ELSE [ok |-> TRUE, ev |-> e,
          parsed |-> [parsed EXCEPT !.grub_file = [device |-> gf.device, path |-> gf.path],
                                    !.event_subtype = "GRUB_EVENT_FILE",
                                    !.rehash = "__tpm_event_grub_file_rehash"]]
__tpm_event_grub_file_event_parse(e, parsed, value) ==
    grub_file_event_parsed(e, parsed, __grub_file_parse(value))

\* Length of the leading keyword (letters and '_') and of the leading word
\* (up to the first blank).
RECURSIVE keyword_len(_)
keyword_len(s) ==
    IF s # <<>> /\ (isalpha(s[1]) \/ s[1] = Ord("_")) THEN 1 + keyword_len(Tail(s)) ELSE 0
RECURSIVE word_len(_)
word_len(s) == IF s # <<>> /\ s[1] # Ord(" ") THEN 1 + word_len(Tail(s)) ELSE 0

GrubCmd == Str(<<"g", "r", "u", "b", "_", "c", "m", "d">>)
KernelCmdline == Str(<<"k", "e", "r", "n", "e", "l", "_", "c", "m", "d", "l", "i", "n", "e">>)
Linux == Str(<<"l", "i", "n", "u", "x">>)
Initrd == Str(<<"i", "n", "i", "t", "r", "d">>)

\* The tail of __tpm_event_grub_command_event_parse once the subtype is known.
grub_command_parsed(e, parsed, arg, subtype, gf) ==
    [ok |-> TRUE, ev |-> e,
     parsed |-> [parsed EXCEPT !.event_subtype = subtype,
                               !.grub_command = [string |-> arg,
                                                 file |-> [device |-> gf.device, path |-> gf.path]],
                               !.rehash = "__tpm_event_grub_command_rehash"]]

\* The file argument of "linux ..." / "initrd ...": wl is the length of the
\* command word; gf the parse of what follows the blank.
grub_command_with_file(e, parsed, arg, subtype, wl, gf) ==
    IF wl < Len(arg) /\ ~gf.ok THEN ParseFailed(e, parsed)
    ELSE IF wl < Len(arg) THEN grub_command_parsed(e, parsed, arg, subtype, gf)
    ELSE grub_command_parsed(e, parsed, arg, subtype, NoFile)

\* The file argument of "kernel_cmdline: ...".
grub_command_cmdline(e, parsed, arg, gf) ==
    IF ~gf.ok THEN ParseFailed(e, parsed)
    ELSE grub_command_parsed(e, parsed, arg, "GRUB_EVENT_KERNEL_CMDLINE", gf)

\* Lines 794 to 819: keyword and arg are the two halves of "keyword: arg".
grub_command_dispatch(e, parsed, keyword, arg) ==
    IF keyword = GrubCmd /\ HasPrefix(arg, Linux)
    THEN grub_command_with_file(e, parsed, arg, "GRUB_EVENT_COMMAND_LINUX", word_len(arg),
                                __grub_file_parse(SubSeq(arg, word_len(arg) + 2, Len(arg))))
    ELSE IF keyword = GrubCmd /\ HasPrefix(arg, Initrd)
    THEN grub_command_with_file(e, parsed, arg, "GRUB_EVENT_COMMAND_INITRD", word_len(arg),
                                __grub_file_parse(SubSeq(arg, word_len(arg) + 2, Len(arg))))
    ELSE IF keyword = GrubCmd
    THEN grub_command_parsed(e, parsed, arg, "GRUB_EVENT_COMMAND", NoFile)
    ELSE IF keyword = KernelCmdline
    THEN grub_command_cmdline(e, parsed, arg, __grub_file_parse(arg))
    ELSE ParseFailed(e, parsed)

\* __tpm_event_grub_command_event_parse; value is the C string of the body.
\* (argv, which only the printing code reads, is not represented.)
grub_command_split(e, parsed, value, wordlen) ==
    IF ~(wordlen + 2 <= Len(value) /\ value[wordlen + 1] = Ord(":") /\ value[wordlen + 2] = Ord(" "))
    THEN ParseFailed(e, parsed)
    ELSE grub_command_dispatch(e, parsed, SubSeq(value, 1, wordlen),
                               SubSeq(value, wordlen + 3, Len(value)))
__tpm_event_grub_command_event_parse(e, parsed, value) ==
    grub_command_split(e, parsed, value, keyword_len(value))

\* __tpm_event_shim_event_parse; rtname is shim_variable_get_full_rtname(value).
__tpm_event_shim_event_parse(e, parsed, value, rtname) ==
    IF rtname = NullStr THEN ParseFailed(e, parsed)
    ELSE [ok |-> TRUE, ev |-> e,
          parsed |-> [parsed EXCEPT !.event_subtype = "SHIM_EVENT_VARIABLE",
                                    !.shim_event = [string |-> value, efi_variable |-> rtname],
                                    !.rehash = "__tpm_event_shim_rehash"]]

\* __tpm_event_systemd_event_parse
__tpm_event_systemd_event_parse(e, parsed, value, len) ==
    [ok |-> TRUE, ev |-> e,
     parsed |-> [parsed EXCEPT !.event_subtype = "SYSTEMD_EVENT_VARIABLE",
                               !.systemd_event = [len |-> len, string |-> value],
                               !.rehash = "__tpm_event_systemd_rehash"]]

\* __tpm_event_parse_tag
tag_parsed(e, parsed, event_id, event_data_len, b) ==
    IF U32Gt(event_data_len, TagEventDataMax) THEN ParseFailed(e, parsed)
    ELSE IF ~buffer_has(b, 8, U32Int(event_data_len)) THEN ParseFailed(e, parsed)
    ELSE IF event_id \notin {LOAD_OPTIONS_EVENT_TAG_ID, INITRD_EVENT_TAG_ID} THEN ParseFailed(e, parsed)
    ELSE [ok |-> TRUE, ev |-> e,
          parsed |-> [parsed EXCEPT
              !.tag_event = [event_id |-> event_id, event_data_len |-> event_data_len,
                             event_data |-> SubSeq(BodyBytes(b), 9, 8 + U32Int(event_data_len))],
              !.rehash = IF event_id = LOAD_OPTIONS_EVENT_TAG_ID
                         THEN "__tpm_event_tag_options_rehash"
                         ELSE "__tpm_event_tag_initrd_rehash"]]
__tpm_event_parse_tag(e, parsed) ==
    IF ~buffer_has(e.event_data, 0, 4) \/ ~buffer_has(e.event_data, 4, 4) THEN ParseFailed(e, parsed)
    ELSE tag_parsed(e, parsed, buffer_u32le(e.event_data, 0), buffer_u32le(e.event_data, 4),
                    e.event_data)

\* __tpm_event_parse_efi_variable, _efi_bsa, _efi_gpt: whether the body
\* decodes is an answer of the environment (decodes).
efi_event_parsed(e, parsed, decodes, rehash) ==
    IF ~decodes THEN ParseFailed(e, parsed)
    ELSE [ok |-> TRUE, ev |-> e, parsed |-> [parsed EXCEPT !.rehash = rehash]]

\* Lines 1061 to 1073 of __tpm_event_parse_ipl: value is the C string.
parse_ipl_by_pcr(e, parsed, value, x) ==
    IF e.pcr_index = 8 THEN __tpm_event_grub_command_event_parse(e, parsed, value)
    ELSE IF e.pcr_index = 9 THEN __tpm_event_grub_file_event_parse(e, parsed, value)
    ELSE IF e.pcr_index = 12
    THEN __tpm_event_systemd_event_parse(e, parsed, BodyBytes(e.event_data), e.event_size)
    ELSE IF e.pcr_index = 14
    THEN __tpm_event_shim_event_parse(e, parsed, value, IF x.shim_known THEN value ELSE NullStr)
    ELSE ParseFailed(e, parsed)

\* a mutant of __tpm_event_parse_ipl: the empty body is accepted only on the
\* PCRs that have a parser
__tpm_event_parse_ipl_known_pcr(e, parsed, x) ==
    IF (e.event_size = 0 \/ BodyByte(e.event_data, 0) = 0) /\ e.pcr_index \in {8, 9, 12, 14}
    THEN [ok |-> TRUE, ev |-> [e EXCEPT !.rehash_strategy = "EVENT_STRATEGY_COPY"],
          parsed |-> parsed]
    ELSE IF e.event_size = 0 THEN ParseFailed(e, parsed)
    ELSE IF BodyByte(e.event_data, e.event_size - 1) # 0 THEN ParseFailed(e, parsed)
    ELSE parse_ipl_by_pcr(e, parsed, CStr(e.event_data.data), x)

\* __tpm_event_parse_ipl
__tpm_event_parse_ipl(e, parsed, x) ==
    IF e.event_size = 0 \/ BodyByte(e.event_data, 0) = 0
    THEN [ok |-> TRUE, ev |-> [e EXCEPT !.rehash_strategy = "EVENT_STRATEGY_COPY"],
          parsed |-> parsed]
    ELSE IF BodyByte(e.event_data, e.event_size - 1) # 0 THEN ParseFailed(e, parsed)
    ELSE parse_ipl_by_pcr(e, parsed, CStr(e.event_data.data), x)

\* __tpm_event_parse
__tpm_event_parse(e, parsed, x) ==
    IF e.event_type = TPM2_EVENT_EVENT_TAG THEN __tpm_event_parse_tag(e, parsed)
    ELSE IF e.event_type = TPM2_EVENT_IPL THEN __tpm_event_parse_ipl(e, parsed, x)
    ELSE IF e.event_type \in {TPM2_EFI_VARIABLE_AUTHORITY, TPM2_EFI_VARIABLE_BOOT,
                              TPM2_EFI_VARIABLE_DRIVER_CONFIG}
    THEN efi_event_parsed(e, parsed, x.decodes, "__tpm_event_efi_variable_rehash")
    ELSE IF e.event_type \in {TPM2_EFI_BOOT_SERVICES_APPLICATION, TPM2_EFI_BOOT_SERVICES_DRIVER}
    THEN efi_event_parsed(e, parsed, x.decodes, "__tpm_event_efi_bsa_rehash")
    ELSE IF e.event_type = TPM2_EFI_GPT_EVENT
    THEN efi_event_parsed(e, parsed, x.decodes, "__tpm_event_efi_gpt_rehash")
    ELSE ParseFailed(e, parsed)

\* A mutant of tpm_event_parse_result: the parsed event is attached even when
\* the parse failed.
tpm_event_parse_keep(e, r) ==
    [ev |-> [r.ev EXCEPT !.__parsed = r.parsed], ret |-> r.parsed, parsed_now |-> TRUE]

\* Lines 1113 to 1119 of tpm_event_parse: r is the result of __tpm_event_parse.
tpm_event_parse_result(e, r) ==
    IF r.ok THEN [ev |-> [r.ev EXCEPT !.__parsed = r.parsed], ret |-> r.parsed, parsed_now |-> TRUE]
    ELSE [ev |-> r.ev, ret |-> r.ev.__parsed, parsed_now |-> TRUE]

\* tpm_event_parse: [ev, ret, parsed_now]; parsed_now tells whether
\* __tpm_event_parse ran.  id is the identity of a newly allocated object.
tpm_event_parse(e, x, id) ==
    IF e.__parsed # NULL THEN [ev |-> e, ret |-> e.__parsed, parsed_now |-> FALSE]
    ELSE tpm_event_parse_result(e, __tpm_event_parse(e, tpm_parsed_event_new(id, e.event_type), x))

(***************************************************************************)
(* Rehash engine.  A rehash returns [out, md, read]: out is "ok" or, where *)
(* the code hands a null pointer to "%s" or to path_unix2dos, possibly     *)
(* "crash"; md is the digest or NULL; read is the file that was read.      *)
(***************************************************************************)
Crypto0 == Str(<<"c", "r", "y", "p", "t", "o", "0">>)
CmdlineSize == 2048

Rehashed(md) == [out |-> "ok", md |-> md, read |-> NULL]
RehashedFile(r) == [out |-> "ok", md |-> r.md, read |-> r.read]
RehashCrashed == [out |-> "crash", md |-> NULL, read |-> NULL]

\* __tpm_event_grub_file_rehash
__tpm_event_grub_file_rehash(parsed, c, x) ==
    IF parsed.grub_file.device = NullStr \/ parsed.grub_file.device = Crypto0
    THEN RehashedFile(runtime_digest_rootfs_file(c.algo, parsed.grub_file.path, x.readable))
    ELSE IF x.is_boot_entry /\ c.boot_entry_path # NullStr
    THEN RehashedFile(runtime_digest_rootfs_file(c.algo, c.boot_entry_path, x.readable))
    ELSE IF sdb_is_kernel(x.token_id, parsed.grub_file.path) /\ c.boot_entry # NULL
    THEN RehashedFile(runtime_digest_efi_file(c.algo, c.boot_entry.image_path, x.readable))
    ELSE IF x.is_initrd /\ c.boot_entry # NULL
    THEN RehashedFile(runtime_digest_efi_file(c.algo, c.boot_entry.initrd_path, x.readable))
    ELSE RehashedFile(runtime_digest_efi_file(c.algo, parsed.grub_file.path, x.readable))

\* The string __tpm_event_grub_command_rehash builds from the boot entry.
grub_command_rebuilt(subtype, device, boot_entry) ==
    CASE subtype = "GRUB_EVENT_COMMAND_LINUX" ->
           Linux \o <<Ord(" ")>>
           \o __grub_file_join([device |-> device, path |-> boot_entry.image_path])
           \o <<Ord(" ")>> \o Printf_s(boot_entry.options)
      [] subtype = "GRUB_EVENT_COMMAND_INITRD" ->
           Initrd \o <<Ord(" ")>>
           \o __grub_file_join([device |-> device, path |-> boot_entry.initrd_path])
      [] subtype = "GRUB_EVENT_KERNEL_CMDLINE" ->
           __grub_file_join([device |-> device, path |-> boot_entry.image_path])
           \o <<Ord(" ")>> \o Printf_s(boot_entry.options)

\* Whether building that string hands a null pointer to "%s".
grub_command_prints_null(subtype, boot_entry) ==
    CASE subtype = "GRUB_EVENT_COMMAND_INITRD" -> boot_entry.initrd_path = NullStr
      [] OTHER -> boot_entry.image_path = NullStr \/ boot_entry.options = NullStr

\* __tpm_event_grub_command_rehash; ub is what the build does with a null "%s".
__tpm_event_grub_command_rehash(parsed, c, ub) ==
    IF parsed.event_subtype \notin {"GRUB_EVENT_COMMAND", "GRUB_EVENT_COMMAND_LINUX",
                                    "GRUB_EVENT_COMMAND_INITRD", "GRUB_EVENT_KERNEL_CMDLINE"}
    THEN Rehashed(NULL)
    ELSE IF parsed.event_subtype = "GRUB_EVENT_COMMAND"
            \/ c.boot_entry = NULL \/ parsed.grub_command.file.path = NullStr
    THEN Rehashed(digest_compute(c.algo, CStr(parsed.grub_command.string)))
    ELSE IF grub_command_prints_null(parsed.event_subtype, c.boot_entry) /\ ub = "crash"
    THEN RehashCrashed
    ELSE Rehashed(digest_compute(c.algo,
            CStr(grub_command_rebuilt(parsed.event_subtype, parsed.grub_command.file.device,
                                      c.boot_entry))))

\* path_unix2dos and __convert_to_utf16le
path_unix2dos(path) == [i \in 1..Len(path) |-> IF path[i] = Ord("/") THEN Ord("\\") ELSE path[i]]
RECURSIVE convert_to_utf16le(_)
convert_to_utf16le(s) == IF s = <<>> THEN <<>> ELSE <<s[1], 0>> \o convert_to_utf16le(Tail(s))

\* snprintf(cmdline, sizeof(cmdline), ...): at most sizeof - 1 bytes are kept.
snprintf_cmdline(s) == SubSeq(s, 1, Min(Len(s), CmdlineSize - 1))

\* __tpm_event_systemd_rehash
__tpm_event_systemd_rehash(e, c, ub) ==
    IF c.boot_entry = NULL THEN Rehashed(tpm_event_get_digest(e, c.algo))
    ELSE IF c.boot_entry.image_path = NullStr THEN Rehashed(NULL)
    ELSE IF c.boot_entry.initrd_path = NullStr /\ ub = "crash" THEN RehashCrashed
    ELSE Rehashed(digest_compute(c.algo,
            convert_to_utf16le(
               snprintf_cmdline(
                  Str(<<"i", "n", "i", "t", "r", "d", "=">>)
                  \o (IF c.boot_entry.initrd_path = NullStr THEN PrintfNull
                      ELSE path_unix2dos(c.boot_entry.initrd_path))
                  \o <<Ord(" ")>>
                  \o (IF c.boot_entry.options = NullStr THEN <<>> ELSE c.boot_entry.options))
               \o <<0>>)))

\* __tpm_event_tag_options_rehash
__tpm_event_tag_options_rehash(e, c, ub) == __tpm_event_systemd_rehash(e, c, ub)

\* __tpm_event_tag_initrd_rehash
__tpm_event_tag_initrd_rehash(e, c, x) ==
    IF c.boot_entry = NULL THEN Rehashed(tpm_event_get_digest(e, c.algo))
    ELSE IF c.boot_entry.initrd_path = NullStr THEN Rehashed(NULL)
    ELSE RehashedFile(runtime_digest_efi_file(c.algo, c.boot_entry.initrd_path, x.readable))

\* __tpm_event_shim_rehash and the rehash of the EFI variants: the live
\* variable, image or partition table is read; NULL when it is unavailable.
external_rehash(parsed, c, x) ==
    Rehashed(IF x.readable THEN [algo |-> c.algo, of |-> parsed.rehash, data |-> <<>>] ELSE NULL)

\* tpm_parsed_event_rehash
tpm_parsed_event_rehash(e, parsed, c, x, ub) ==
    IF parsed = NULL THEN Rehashed(NULL)
    ELSE IF parsed.rehash = NoRehash THEN Rehashed(NULL)
    ELSE CASE parsed.rehash = "__tpm_event_grub_file_rehash" ->
                __tpm_event_grub_file_rehash(parsed, c, x)
           [] parsed.rehash = "__tpm_event_grub_command_rehash" ->
                __tpm_event_grub_command_rehash(parsed, c, ub)
           [] parsed.rehash = "__tpm_event_systemd_rehash" ->
                __tpm_event_systemd_rehash(e, c, ub)
           [] parsed.rehash = "__tpm_event_tag_options_rehash" ->
                __tpm_event_tag_options_rehash(e, c, ub)
           [] parsed.rehash = "__tpm_event_tag_initrd_rehash" ->
                __tpm_event_tag_initrd_rehash(e, c, x)
           [] OTHER -> external_rehash(parsed, c, x)

(***************************************************************************)
(* Specification of the parser and the rehash engine on one event.         *)
(***************************************************************************)
\* Event bodies: the text followed by its terminating NUL.
Z(cs) == Str(cs) \o <<0>>
IplBodies8 ==
    {Z(<<"g", "r", "u", "b", "_", "c", "m", "d", ":", " ", "l", "i", "n", "u", "x", " ",
         "(", "h", ")", "/", "k", " ", "r", "o">>),
     Z(<<"g", "r", "u", "b", "_", "c", "m", "d", ":", " ", "i", "n", "i", "t", "r", "d", " ",
         "(", "h", ")", "/", "i">>),
     Z(<<"g", "r", "u", "b", "_", "c", "m", "d", ":", " ", "s", "e", "t", " ", "x">>),
     Z(<<"g", "r", "u", "b", "_", "c", "m", "d", ":", " ", "l", "i", "n", "u", "x">>),
     Z(<<"g", "r", "u", "b", "_", "c", "m", "d", ":", " ", "l", "i", "n", "u", "x", " ", "k">>),
     Z(<<"g", "r", "u", "b", "_", "c", "m", "d">>),
     Z(<<"k", "e", "r", "n", "e", "l", "_", "c", "m", "d", "l", "i", "n", "e", ":", " ",
         "(", "h", ")", "/", "k", " ", "r", "o">>),
     Z(<<"k", "e", "r", "n", "e", "l", "_", "c", "m", "d", "l", "i", "n", "e", ":", " ",
         "/", "k", " ", "r", "o">>),
     Z(<<"k", "e", "r", "n", "e", "l", "_", "c", "m", "d", "l", "i", "n", "e", ":", " ", "r", "o">>),
     Z(<<"x", ":", " ", "y">>)}
IplBodies9 ==
    {Z(<<"(", "h", ")", "/", "t", "/", "l", "i", "n", "u", "x", "-", "1">>),
     Z(<<"(", "h", ")", "/", "i">>),
     Z(<<"/", "b">>),
     Z(<<"(", "c", "r", "y", "p", "t", "o", "0", ")", "/", "b">>),
     Z(<<"(", "h", "/", "b">>),
     Z(<<"b">>),
     Str(<<"(", "h", ")", "/", "b">>),
     <<0>> \o Z(<<"/", "b">>),
     <<>>}
TagBody(id, len, data) == LE16(id[2]) \o LE16(id[1]) \o LE32(len) \o data
TagBodies ==
    {[data |-> TagBody(LOAD_OPTIONS_EVENT_TAG_ID, 2, Str(<<"r", "o">>)), zeros |-> 0],
     [data |-> TagBody(INITRD_EVENT_TAG_ID, 0, <<>>), zeros |-> 0],
     [data |-> TagBody(<<36667, 8942>>, 0, <<>>), zeros |-> 0],
     [data |-> TagBody(LOAD_OPTIONS_EVENT_TAG_ID, 4, Str(<<"r", "o">>)), zeros |-> 0],
     [data |-> TagBody(INITRD_EVENT_TAG_ID, TagEventDataMax, <<>>), zeros |-> TagEventDataMax],
     [data |-> TagBody(INITRD_EVENT_TAG_ID, TagEventDataMax + 1, <<>>), zeros |-> TagEventDataMax + 1],
     [data |-> <<237, 34, 59, 143, 0, 0>>, zeros |-> 0]}

\* The event the reader hands out: no parsed event, strategy not yet chosen.
NewEvent(pcr_index, event_type, body) ==
    [pcr_index |-> pcr_index, event_type |-> event_type,
     event_size |-> BodySize(body), event_data |-> body,
     pcr_values |-> <<[algo_id |-> 4, size |-> 20, data |-> DigestData(1, 20)],
                      [algo_id |-> 11, size |-> 32, data |-> DigestData(2, 32)]>>,
     __parsed |-> NULL, rehash_strategy |-> "EVENT_STRATEGY_UNSET"]

Events ==
    {NewEvent(8, TPM2_EVENT_IPL, [data |-> b, zeros |-> 0]) : b \in IplBodies8}
    \cup {NewEvent(9, TPM2_EVENT_IPL, [data |-> b, zeros |-> 0]) : b \in IplBodies9}
    \cup {NewEvent(p, TPM2_EVENT_IPL, [data |-> Z(<<"m">>) \o <<0, 0>>, zeros |-> 0]) : p \in {10, 12, 14}}
    \cup {NewEvent(10, TPM2_EVENT_IPL, [data |-> b, zeros |-> 0]) : b \in {<<>>, <<0, 109>>}}
    \cup {NewEvent(9, TPM2_EVENT_EVENT_TAG, b) : b \in TagBodies}
    \cup {NewEvent(7, t, [data |-> <<1>>, zeros |-> 0]) :
            t \in {TPM2_EFI_VARIABLE_AUTHORITY, TPM2_EFI_VARIABLE_BOOT,
                   TPM2_EFI_VARIABLE_DRIVER_CONFIG, TPM2_EFI_BOOT_SERVICES_APPLICATION,
                   TPM2_EFI_BOOT_SERVICES_DRIVER, TPM2_EFI_GPT_EVENT,
                   TPM2_EVENT_SEPARATOR, TPM2_EFI_ACTION, TPM2_EVENT_NO_ACTION}}

\* Rehash contexts: the algorithm, the boot entry of the next kernel (or
\* none) and the path of its entry file (or none).
TokenId == Str(<<"t">>)
BootEntries ==
    [image_path : {NullStr, Str(<<"/", "t", "/", "l", "i", "n", "u", "x", "-", "2">>)},
     initrd_path : {NullStr, Str(<<"/", "t", "/", "i", "2">>)},
     options : {NullStr, Str(<<"r", "w">>)}]
Contexts ==
    [algo : {11, 12},
     boot_entry : {NULL} \cup BootEntries,
     boot_entry_path : {NullStr, Str(<<"/", "e">>)}]

\* The answers of the collaborators that matter for the event e.
IsEfiEvent(e) == e.event_type[1] = 32768
IsFileEvent(e) == e.pcr_index = 9 /\ e.event_type = TPM2_EVENT_IPL
Environments(e) ==
    [token_id : IF IsFileEvent(e) THEN {NullStr, TokenId} ELSE {NullStr},
     is_boot_entry : IF IsFileEvent(e) THEN BOOLEAN ELSE {FALSE},
     is_initrd : IF IsFileEvent(e) THEN BOOLEAN ELSE {FALSE},
     decodes : IF IsEfiEvent(e) THEN BOOLEAN ELSE {TRUE},
     shim_known : IF e.pcr_index = 14 THEN BOOLEAN ELSE {TRUE},
     readable : IF IsEfiEvent(e) \/ e.pcr_index \in {9, 14} THEN BOOLEAN ELSE {TRUE}]

NotRehashed == [out |-> "none", md |-> NULL, read |-> NULL]

InitEvent ==
    /\ recs = [mid |-> <<>>, last |-> "none", lay |-> "v1", cut |-> 0]
    /\ file = MakeFile(recs)
    /\ InitReader
    /\ ev \in Events
    /\ ctx \in Contexts
    /\ env \in Environments(ev)
    /\ heap = 0
    /\ calls = <<>>
    /\ rehashed = NotRehashed
    /\ IdlePolicy
    /\ IdleVercmp
    /\ IdleSdb

\* A call of tpm_event_parse on the event.
Parse ==
    /\ ev # NULL
    /\ Len(calls) < MaxCalls
    /\ rehashed.out # "crash"
    /\ LET r == tpm_event_parse(ev, env, heap + 1)
       IN /\ ev' = r.ev
          /\ heap' = IF r.parsed_now THEN heap + 1 ELSE heap
          /\ calls' = Append(calls, [fn |-> "tpm_event_parse", ret |-> r.ret,
                                     ran |-> r.parsed_now,
                                     strategy_before |-> ev.rehash_strategy])
    /\ UNCHANGED <<rvars, ctx, env, rehashed, pvars, vvars, svars>>

\* A call of tpm_parsed_event_rehash on the event and its parsed event.
Rehash ==
    /\ ev # NULL
    /\ Len(calls) < MaxCalls
    /\ rehashed.out # "crash"
    /\ \E ub \in {"text", "crash"} :
          rehashed' = tpm_parsed_event_rehash(ev, ev.__parsed, ctx, env, ub)
    /\ calls' = Append(calls, [fn |-> "tpm_parsed_event_rehash", ret |-> ev.__parsed,
                               ran |-> FALSE, strategy_before |-> ev.rehash_strategy])
    /\ UNCHANGED <<rvars, ev, ctx, env, heap, pvars, vvars, svars>>

NextEvent == Parse \/ Rehash

SpecEvent == InitEvent /\ [][NextEvent]_vars

(***************************************************************************)
(* C7: events that do not parse, and the cached parse.                     *)
(***************************************************************************)
DispatchSet ==
    {TPM2_EVENT_EVENT_TAG, TPM2_EVENT_IPL, TPM2_EFI_VARIABLE_AUTHORITY, TPM2_EFI_VARIABLE_BOOT,
     TPM2_EFI_VARIABLE_DRIVER_CONFIG, TPM2_EFI_BOOT_SERVICES_APPLICATION,
     TPM2_EFI_BOOT_SERVICES_DRIVER, TPM2_EFI_GPT_EVENT}
IplPcrs == {8, 9, 12, 14}
BodyText(e) == CStr(e.event_data.data)
EmptyIpl(e) == e.event_size = 0 \/ BodyByte(e.event_data, 0) = 0

\* A grub path argument that is neither "/path" nor "(device)path".
BadGrubPath(s) ==
    \/ s = <<>>
    \/ s[1] \notin {Ord("/"), Ord("(")}
    \/ s[1] = Ord("(") /\ \A i \in 1..Len(s) : s[i] # Ord(")")
After(s, prefix) == SubSeq(s, Len(prefix) + 1, Len(s))
GrubCmdColon == GrubCmd \o <<Ord(":"), Ord(" ")>>
KernelCmdlineColon == KernelCmdline \o <<Ord(":"), Ord(" ")>>

\* The tag id and the payload length an EVENT_TAG body announces.
TagId(e) == <<LE16At([bytes |-> e.event_data.data, pad |-> e.event_data.zeros], 2),
              LE16At([bytes |-> e.event_data.data, pad |-> e.event_data.zeros], 0)>>
TagLen(e) == LE32At([bytes |-> e.event_data.data, pad |-> e.event_data.zeros], 4)

\* Bodies that do not decode, case by case of section 4.E.
TagFails(e) ==
    \/ e.event_size < 8
    \/ U32Gt(TagLen(e), e.event_size - 8)
    \/ U32Gt(TagLen(e), TagEventDataMax)
    \/ TagId(e) \notin {LOAD_OPTIONS_EVENT_TAG_ID, INITRD_EVENT_TAG_ID}
IplTextFails(e, x) ==
    \/ BodyByte(e.event_data, e.event_size - 1) # 0
    \/ e.pcr_index = 9 /\ BadGrubPath(BodyText(e))
    \/ e.pcr_index = 14 /\ ~x.shim_known
    \/ /\ e.pcr_index = 8
       /\ \/ ~HasPrefix(BodyText(e), GrubCmdColon) /\ ~HasPrefix(BodyText(e), KernelCmdlineColon)
          \/ /\ HasPrefix(BodyText(e), KernelCmdlineColon)
             /\ BadGrubPath(After(BodyText(e), KernelCmdlineColon))
          \/ \E w \in {Linux, Initrd} :
               /\ HasPrefix(BodyText(e), GrubCmdColon \o w \o <<Ord(" ")>>)
               /\ BadGrubPath(After(BodyText(e), GrubCmdColon \o w \o <<Ord(" ")>>))

\* The events the claim says do not parse, with "an IPL on a PCR other than
\* 8, 9, 12, 14" taken as written (anyIpl) or for non-empty bodies only.
FailsToParse(e, x, anyIpl) ==
    \/ e.event_type \notin DispatchSet
    \/ e.event_type = TPM2_EVENT_EVENT_TAG /\ TagFails(e)
    \/ e.event_type = TPM2_EVENT_IPL /\ e.pcr_index \notin IplPcrs /\ (anyIpl \/ ~EmptyIpl(e))
    \/ e.event_type = TPM2_EVENT_IPL /\ ~EmptyIpl(e) /\ IplTextFails(e, x)
    \/ IsEfiEvent(e) /\ e.event_type \in DispatchSet /\ ~x.decodes

ParseCalls == {i \in 1..Len(calls) : calls[i].fn = "tpm_event_parse"}

\* Every parse call made so far returned nothing and left the event as it was.
LeftUnparsed ==
    /\ ev.__parsed = NULL
    /\ \A i \in ParseCalls :
          /\ calls[i].ret = NULL
          /\ calls[i].strategy_before = ev.rehash_strategy
          /\ ev.rehash_strategy = "EVENT_STRATEGY_UNSET"

\* After a parse that returned an object, every later parse call returns that
\* object and does not run the parser again.
ParseCached ==
    \A i \in ParseCalls : \A j \in ParseCalls :
        (i < j /\ calls[i].ret # NULL) => (calls[j].ret = calls[i].ret /\ ~calls[j].ran)

\* C7 as stated: an event outside the dispatch set, or whose body fails to
\* decode (an EVENT_TAG with another id, an IPL on a PCR other than 8, 9, 12,
\* 14), stays unparsed with its rehash_strategy unchanged, and a successful
\* parse is returned again by every later call without parsing again.
Counterexample_C7 ==
    (ParseCalls # {} => ((FailsToParse(ev, env, TRUE) => LeftUnparsed) /\ ParseCached))

\* C7, amended: the same, where the IPL on another PCR has a non-empty body;
\* an IPL whose body is empty or starts with NUL parses on every PCR and sets
\* the rehash strategy to COPY.
Theorem_C7 ==
    ParseCalls # {} =>
        /\ FailsToParse(ev, env, FALSE) => LeftUnparsed
        /\ (ev.event_type = TPM2_EVENT_IPL /\ EmptyIpl(ev)) =>
              /\ ev.__parsed # NULL
              /\ ev.rehash_strategy = "EVENT_STRATEGY_COPY"
              /\ \A i \in ParseCalls : calls[i].ret = ev.__parsed
        /\ ParseCached
        /\ heap <= 1 \/ ev.__parsed = NULL

\* An IPL with a text body on PCR 10 was parsed twice and stayed unparsed.
Witness_C7 ==
    /\ ev.event_type = TPM2_EVENT_IPL /\ ev.pcr_index = 10 /\ ~EmptyIpl(ev)
    /\ Cardinality(ParseCalls) >= 2
    /\ LeftUnparsed
\* A grub command was parsed and the parsed event was returned a second time.
Witness_C7_cached ==
    /\ ev.pcr_index = 8 /\ ev.__parsed # NULL
    /\ \E i \in ParseCalls : \E j \in ParseCalls : i < j /\ calls[i].ran /\ ~calls[j].ran
                                                  /\ calls[j].ret = calls[i].ret
\* An EVENT_TAG with an unknown id stayed unparsed.
Witness_C7_tag ==
    /\ ev.event_type = TPM2_EVENT_EVENT_TAG /\ ev.event_size >= 8 /\ TagFails(ev)
    /\ ParseCalls # {} /\ LeftUnparsed

(***************************************************************************)
(* C8 to C10: what the rehash of an IPL or tag event hashes.               *)
(***************************************************************************)
\* The last call was a rehash of a parsed event with the given rehash rule.
RehashedBy(rule) ==
    /\ calls # <<>>
    /\ calls[Len(calls)].fn = "tpm_parsed_event_rehash"
    /\ ev.__parsed # NULL
    /\ ev.__parsed.rehash \in rule

\* The file the claim says is hashed for a grub file event: the file system
\* and the path.
Source_C8 ==
    LET gf == ev.__parsed.grub_file
    IN IF gf.device = NullStr \/ gf.device = Crypto0
       THEN [fs |-> "rootfs", path |-> gf.path]
       ELSE IF env.is_boot_entry /\ ctx.boot_entry_path # NullStr
       THEN [fs |-> "efi", path |-> ctx.boot_entry_path]
       ELSE IF sdb_is_kernel(env.token_id, gf.path) /\ ctx.boot_entry # NULL
       THEN [fs |-> "efi", path |-> ctx.boot_entry.image_path]
       ELSE IF env.is_initrd /\ ctx.boot_entry # NULL
       THEN [fs |-> "efi", path |-> ctx.boot_entry.initrd_path]
       ELSE [fs |-> "efi", path |-> gf.path]

\* C8: the rehash of a grub file event reads the literal path from the root
\* file system when the device is null or "crypto0", and otherwise reads from
\* the EFI partition, the path replaced by the one of the next boot entry
\* when the file is an entry file, a kernel or an initrd; a file with
\* another device is never read from the root file system.
Counterexample_C8 ==
    RehashedBy({"__tpm_event_grub_file_rehash"}) =>
        /\ rehashed.read = Source_C8
        /\ (ev.__parsed.grub_file.device \notin {NullStr, Crypto0}) => rehashed.read.fs # "rootfs"

\* An absent string of the boot entry contributes no bytes.
Opt(s) == IF s = NullStr THEN <<>> ELSE s
DevicePrefix(device) ==
    IF device = NullStr THEN <<>> ELSE <<Ord("(")>> \o device \o <<Ord(")")>>

\* The bytes the claim says are hashed for a grub command event.
Bytes_C9 ==
    LET gc == ev.__parsed.grub_command
        sub == ev.__parsed.event_subtype
        be == ctx.boot_entry
    IN IF sub = "GRUB_EVENT_COMMAND" \/ be = NULL \/ gc.file.path = NullStr
       THEN gc.string
       ELSE IF sub = "GRUB_EVENT_KERNEL_CMDLINE"
       THEN DevicePrefix(gc.file.device) \o Opt(be.image_path) \o <<Ord(" ")>> \o Opt(be.options)
       ELSE IF sub = "GRUB_EVENT_COMMAND_LINUX"
       THEN Linux \o <<Ord(" ")>> \o DevicePrefix(gc.file.device) \o Opt(be.image_path)
            \o <<Ord(" ")>> \o Opt(be.options)
       ELSE Initrd \o <<Ord(" ")>> \o DevicePrefix(gc.file.device) \o Opt(be.initrd_path)

\* C9: the rehash of a grub command event is the digest of exactly the bytes
\* "<(device)><image_path> <options>" for kernel_cmdline, the same after
\* "linux " for grub_cmd linux, "initrd <(device)><initrd_path>" for grub_cmd
\* initrd, each with a boot entry and a parsed file, and of the captured
\* command string in every other case.
Counterexample_C9 ==
    RehashedBy({"__tpm_event_grub_command_rehash"}) =>
        rehashed = Rehashed(digest_compute(ctx.algo, Bytes_C9))

\* The digest the log holds for the algorithm, if any.
Historical(e, algo) ==
    IF \E i \in 1..Len(e.pcr_values) : e.pcr_values[i].algo_id = algo
    THEN [algo |-> algo, of |-> "log",
          data |-> e.pcr_values[CHOOSE i \in 1..Len(e.pcr_values) : e.pcr_values[i].algo_id = algo].data]
    ELSE NULL

\* "initrd=<DOS form of initrd_path> <options>" with its terminating NUL, in
\* UTF-16LE: every byte followed by a zero byte.
Bytes_C10 ==
    LET text == Str(<<"i", "n", "i", "t", "r", "d", "=">>)
                \o [i \in 1..Len(Opt(ctx.boot_entry.initrd_path)) |->
                      IF Opt(ctx.boot_entry.initrd_path)[i] = 47 THEN 92
                      ELSE Opt(ctx.boot_entry.initrd_path)[i]]
                \o <<32>> \o Opt(ctx.boot_entry.options) \o <<0>>
    IN [i \in 1..(2 * Len(text)) |-> IF i % 2 = 1 THEN text[(i + 1) \div 2] ELSE 0]

\* C10: the rehash of a systemd event, and identically of a LoadOptions tag
\* event, is the historical digest of the event when the context has no boot
\* entry, and otherwise the digest of "initrd=<DOS initrd_path> <options>"
\* with its NUL, in UTF-16LE.
Counterexample_C10 ==
    RehashedBy({"__tpm_event_systemd_rehash", "__tpm_event_tag_options_rehash"}) =>
        rehashed = Rehashed(IF ctx.boot_entry = NULL THEN Historical(ev, ctx.algo)
                            ELSE digest_compute(ctx.algo, Bytes_C10))

(***************************************************************************)
(* The TPM policy builder (src/src/pcr-policy.c).                          *)
(*                                                                         *)
(* The process state t threaded through the functions holds the ESYS      *)
(* objects (handle = index into objs), the log of the calls that can fail, *)
(* the handle locals (h) and data locals (d) of the running functions and  *)
(* the flag ok, which is FALSE once a function took its `goto cleanup` or  *)
(* returned false: the calls between that point and the cleanup label are  *)
(* then skipped.  The n-th fallible call fails when n is in t.fails.      *)
(***************************************************************************)
ESYS_TR_NONE == 0
UninitTR == -1
PCR_BANK_REGISTER_MAX == 24
TPM2_ALG_SHA256 == 11
SensitiveDataMax == 128

HandleVars == {"sequence_handle", "session_handle", "pub_key_handle", "primary_handle",
               "srk_handle", "sealed_object_handle"}
DataVars == {"pcrSel", "pcrDigest", "pcr_policy", "public_key_name", "authorized_policy",
             "pcr_policy_hash", "verification_ticket", "secret", "sealed", "unsealed",
             "policy_signature", "pub_key", "tpm2key", "pcr_sel", "policy_ref"}

Process(fails, garbage, srk) ==
    [objs |-> <<>>, n |-> 0, fails |-> fails, garbage |-> garbage, srk |-> srk,
     log |-> <<>>, ok |-> TRUE,
     h |-> [x \in HandleVars |-> ESYS_TR_NONE],
     d |-> [x \in DataVars |-> NULL]]

SetHandle(t, var, value) == IF t.ok THEN [t EXCEPT !.h[var] = value] ELSE t
SetData(t, var, value) == IF t.ok THEN [t EXCEPT !.d[var] = value] ELSE t
Fail(t) == [t EXCEPT !.ok = FALSE]
\* the caller looks at a result and carries on whatever it was
Recover(t) == [t EXCEPT !.ok = TRUE]

\* tss_check_error on the rc of the n-th call
tss_check_error(t) == (t.n + 1) \notin t.fails

Logged(t, cmd, arg) ==
    [t EXCEPT !.n = @ + 1,
              !.log = Append(@, [cmd |-> cmd, ok |-> tss_check_error(t), arg |-> arg]),
              !.ok = tss_check_error(t)]

\* a call that returns nothing the model keeps
Call(t, cmd, arg) == IF ~t.ok THEN t ELSE Logged(t, cmd, arg)

\* a call that hands back data in a local
CallData(t, cmd, arg, var, value) ==
    IF ~t.ok THEN t
    ELSE IF tss_check_error(t) THEN [Logged(t, cmd, arg) EXCEPT !.d[var] = value]
    ELSE Logged(t, cmd, arg)

\* a call that creates an ESYS object and hands back its handle
CallHandle(t, cmd, arg, var, kind, data) ==
    IF ~t.ok THEN t
    ELSE IF tss_check_error(t)
         THEN [Logged(t, cmd, arg) EXCEPT
                  !.objs = Append(@, [kind |-> kind, open |-> TRUE, data |-> data]),
                  !.h[var] = Len(t.objs) + 1]
    ELSE Logged(t, cmd, arg)

IsOpen(t, hv) == hv \in 1..Len(t.objs) /\ t.objs[hv].open
ObjData(t, var) == IF t.h[var] \in 1..Len(t.objs) THEN t.objs[t.h[var]].data ELSE NULL

\* Esys_FlushContext: releases the object behind a valid handle
Esys_FlushContext(t, hv) ==
    [t EXCEPT !.log = Append(@, [cmd |-> "Esys_FlushContext", ok |-> IsOpen(t, hv),
                                  arg |-> [handle |-> hv]]),
              !.objs = IF IsOpen(t, hv) THEN [@ EXCEPT ![hv].open = FALSE] ELSE @]

\* the value read from a handle local; an uninitialized local holds anything
HandleValue(t, var) == IF t.h[var] = UninitTR THEN t.garbage ELSE t.h[var]

esys_flush_context(t, var) ==
    IF HandleValue(t, var) = ESYS_TR_NONE THEN t
    ELSE [Esys_FlushContext(t, HandleValue(t, var)) EXCEPT !.h[var] = ESYS_TR_NONE]

Esys_StartAuthSession(t, session_type, var) ==
    CallHandle(t, "Esys_StartAuthSession", [sessionType |-> session_type], var,
               "session", [sessionType |-> session_type, policyDigest |-> <<>>])

esys_start_auth_session(t, session_type, var) == Esys_StartAuthSession(t, session_type, var)

Esys_HashSequenceStart(t, algo, var) ==
    CallHandle(t, "Esys_HashSequenceStart", [hashAlg |-> algo], var,
               "sequence", [hashAlg |-> algo, buffer |-> <<>>])

Esys_SequenceUpdate(t, var, value) ==
    IF ~t.ok THEN t
    ELSE IF tss_check_error(t)
         THEN [Logged(t, "Esys_SequenceUpdate", [handle |-> t.h[var], buffer |-> value])
                  EXCEPT !.objs[t.h[var]].data.buffer = Append(@, value)]
    ELSE Logged(t, "Esys_SequenceUpdate", [handle |-> t.h[var], buffer |-> value])

\* Esys_SequenceComplete: on success the sequence object is gone and the
\* digest of everything it was fed comes back; on failure nothing changes.
Esys_SequenceComplete(t, var, out) ==
    IF tss_check_error(t)
    THEN [Logged(t, "Esys_SequenceComplete", [handle |-> t.h[var]]) EXCEPT
             !.objs[t.h[var]].open = FALSE,
             !.d[out] = [hashAlg |-> ObjData(t, var).hashAlg, of |-> ObjData(t, var).buffer]]
    ELSE Logged(t, "Esys_SequenceComplete", [handle |-> t.h[var]])

Esys_PolicyPCR(t, var, pcrDigest, pcrs) ==
    IF ~t.ok THEN t
    ELSE IF tss_check_error(t)
         THEN [Logged(t, "Esys_PolicyPCR",
                      [session |-> t.h[var], pcrDigest |-> pcrDigest, pcrs |-> pcrs])
                  EXCEPT !.objs[t.h[var]].data.policyDigest =
                             Append(@, [cc |-> "PolicyPCR", pcrs |-> pcrs,
                                        pcrDigest |-> pcrDigest])]
    ELSE Logged(t, "Esys_PolicyPCR",
                [session |-> t.h[var], pcrDigest |-> pcrDigest, pcrs |-> pcrs])

Esys_PolicyGetDigest(t, var, out) ==
    CallData(t, "Esys_PolicyGetDigest", [session |-> t.h[var]], out,
             [policy |-> ObjData(t, var).policyDigest])

\* TPM2_PolicyAuthorize replaces the policy digest of the session by one made
\* of the name of the signing key and the policy reference.
Esys_PolicyAuthorize(t, var, approvedPolicy, policyRef, keySign, checkTicket) ==
    IF ~t.ok THEN t
    ELSE IF tss_check_error(t)
         THEN [Logged(t, "Esys_PolicyAuthorize",
                      [session |-> t.h[var], approvedPolicy |-> approvedPolicy,
                       policyRef |-> policyRef, keySign |-> keySign,
                       checkTicket |-> checkTicket])
                  EXCEPT !.objs[t.h[var]].data.policyDigest =
                             <<[cc |-> "PolicyAuthorize", keySign |-> keySign,
                                policyRef |-> policyRef]>>]
    ELSE Logged(t, "Esys_PolicyAuthorize",
                [session |-> t.h[var], approvedPolicy |-> approvedPolicy,
                 policyRef |-> policyRef, keySign |-> keySign,
                 checkTicket |-> checkTicket])

Esys_LoadExternal(t, pubKey, var) ==
    CallHandle(t, "Esys_LoadExternal", [inPublic |-> pubKey], var, "key", pubKey)

Esys_TR_GetName(t, var, out) ==
    CallData(t, "Esys_TR_GetName", [handle |-> t.h[var]], out, [name_of |-> ObjData(t, var)])

\* ---- PCR selections -------------------------------------------------------
\* A u32 mask is the set of its bit numbers.
Mask24(mask) == {i \in mask : i < PCR_BANK_REGISTER_MAX}

Pow2(j) == 2 ^ j
BitIsSet(byte, j) == (byte \div Pow2(j)) % 2 = 1

RECURSIVE MaskByte(_, _, _)
\* (mask >> 8k) & 0xFF, summed from bit j upwards
MaskByte(mask, k, j) ==
    IF j > 7 THEN 0
    ELSE (IF (8 * k + j) \in mask THEN Pow2(j) ELSE 0) + MaskByte(mask, k, j + 1)

\* memset(sel, 0, sizeof(*sel)): only the first bank selection is ever used
ZeroSelection == [count |-> 0, hash |-> 0, sizeofSelect |-> 0, pcrSelect |-> <<0, 0, 0>>]

__pcr_selection_build(pcr_mask, algo_info) ==
    IF Mask24(pcr_mask) = {} THEN ZeroSelection
    ELSE [count |-> 1, hash |-> algo_info.tcg_id, sizeofSelect |-> 3,
          pcrSelect |-> <<MaskByte(Mask24(pcr_mask), 0, 0), MaskByte(Mask24(pcr_mask), 1, 0),
                          MaskByte(Mask24(pcr_mask), 2, 0)>>]

pcr_bank_to_selection(bank) == __pcr_selection_build(bank.valid_mask, bank.algo_info)

\* a mutant of __pcr_selection_add: the bit always goes into the first byte
selection_add_first_byte(sel, algo_id, pcr_index) ==
    [count |-> 1,
     hash |-> IF sel.count = 0 THEN algo_id ELSE sel.hash,
     sizeofSelect |-> IF sel.count = 0 THEN 3 ELSE sel.sizeofSelect,
     pcrSelect |-> [sel.pcrSelect EXCEPT ![1] =
                        IF BitIsSet(@, pcr_index % 8) THEN @ ELSE @ + Pow2(pcr_index % 8)]]

__pcr_selection_add(sel, algo_id, pcr_index) ==
    [count |-> 1,
     hash |-> IF sel.count = 0 THEN algo_id ELSE sel.hash,
     sizeofSelect |-> IF sel.count = 0 THEN 3 ELSE sel.sizeofSelect,
     pcrSelect |-> [sel.pcrSelect EXCEPT ![(pcr_index \div 8) + 1] =
                        IF BitIsSet(@, pcr_index % 8) THEN @ ELSE @ + Pow2(pcr_index % 8)]]

\* ---- PCR banks (pcr.c) ----------------------------------------------------
ZeroDigest == 0

pcr_bank_register_is_valid(bank, index) ==
    index < PCR_BANK_REGISTER_MAX /\ index \in bank.valid_mask

pcr_bank_initialize(pcr_mask, algo_info) ==
    [pcr_mask |-> pcr_mask, valid_mask |-> {}, algo_info |-> algo_info,
     pcr |-> [i \in 0..(PCR_BANK_REGISTER_MAX - 1) |-> ZeroDigest]]

pcr_bank_init_from_zero(bank) ==
    [bank EXCEPT !.pcr = [i \in 0..(PCR_BANK_REGISTER_MAX - 1) |-> ZeroDigest],
                 !.valid_mask = Mask24(bank.pcr_mask)]

\* pcr_bank_init_from_current: the registers of the live TPM that can be read
pcr_bank_init_from_current(bank, live) ==
    [bank EXCEPT !.pcr = [i \in 0..(PCR_BANK_REGISTER_MAX - 1) |->
                             IF i \in Mask24(bank.pcr_mask) THEN live[i] ELSE @[i]],
                 !.valid_mask = Mask24(bank.pcr_mask)]

\* ---- __pcr_bank_hash ------------------------------------------------------
pcr_selection_add(t, var, algo_id, pcr_index) ==
    IF ~t.ok THEN t ELSE [t EXCEPT !.d[var] = __pcr_selection_add(@, algo_id, pcr_index)]

RECURSIVE pcr_bank_hash_loop(_, _, _)
pcr_bank_hash_loop(t, bank, i) ==
    IF i >= PCR_BANK_REGISTER_MAX THEN t
    ELSE IF ~pcr_bank_register_is_valid(bank, i) THEN pcr_bank_hash_loop(t, bank, i + 1)
    ELSE pcr_bank_hash_loop(
             pcr_selection_add(Esys_SequenceUpdate(t, "sequence_handle", bank.pcr[i]),
                               "pcrSel", bank.algo_info.tcg_id, i),
             bank, i + 1)

\* the end of __pcr_bank_hash: the final Esys_SequenceComplete, or the one
\* under the label `failed`, whose rc is not looked at
pcr_bank_hash_complete(t) ==
    IF t.ok
    THEN [Esys_SequenceComplete(t, "sequence_handle", "pcrDigest")
             EXCEPT !.h["sequence_handle"] = ESYS_TR_NONE]
    ELSE IF t.h["sequence_handle"] # ESYS_TR_NONE
    THEN [Esys_SequenceComplete(t, "sequence_handle", "pcrDigest")
             EXCEPT !.h["sequence_handle"] = ESYS_TR_NONE, !.ok = FALSE,
                    !.d["pcrDigest"] = NULL]
    ELSE t

pcr_bank_hash_start(t, bank) ==
    Esys_HashSequenceStart([t EXCEPT !.h["sequence_handle"] = ESYS_TR_NONE,
                                     !.d["pcrSel"] = ZeroSelection,
                                     !.d["pcrDigest"] = NULL],
                           bank.algo_info.tcg_id, "sequence_handle")

__pcr_bank_hash(t, bank) ==
    IF ~t.ok THEN t
    ELSE pcr_bank_hash_complete(pcr_bank_hash_loop(pcr_bank_hash_start(t, bank), bank, 0))

\* ---- pcr_policy_digest ----------------------------------------------------
policy_pcr_body(t, pcrSel, pcrDigest, out) ==
    Esys_PolicyGetDigest(Esys_PolicyPCR(t, "session_handle", pcrDigest, pcrSel),
                         "session_handle", out)

esys_policy_pcr(t, out) ==
    IF ~t.ok THEN t
    ELSE esys_flush_context(
             policy_pcr_body(
                 esys_start_auth_session([t EXCEPT !.h["session_handle"] = ESYS_TR_NONE],
                                         "TPM2_SE_TRIAL", "session_handle"),
                 t.d["pcrSel"], t.d["pcrDigest"], out),
             "session_handle")

\* the PCR policy is left in the data local pcr_policy (NULL on failure)
__pcr_policy_make(t, bank) ==
    IF ~t.ok THEN t
    ELSE esys_policy_pcr(
             __pcr_bank_hash([t EXCEPT !.d["pcrSel"] = pcr_bank_to_selection(bank),
                                       !.d["pcr_policy"] = NULL], bank),
             "pcr_policy")

\* ---- authorized policies --------------------------------------------------
EmptyNonce == [size |-> 0]

\* a step of the program that cannot fail, kept in the log
Note(t, cmd, arg) ==
    IF ~t.ok THEN t ELSE [t EXCEPT !.log = Append(@, [cmd |-> cmd, ok |-> TRUE, arg |-> arg])]

\* the ticket of the trial session: tag VERIFIED, hierarchy OWNER, no digest
check_ticket == [verified |-> NULL, by |-> NULL]

create_authorized_policy_authorize(t) ==
    Esys_PolicyAuthorize(t, "session_handle", t.d["pcr_policy"], EmptyNonce,
                         t.d["public_key_name"], check_ticket)

\* session_handle and pub_key_handle are declared without an initial value
esys_create_authorized_policy(t, pubKey) ==
    IF ~t.ok THEN t
    ELSE esys_flush_context(esys_flush_context(
             Esys_PolicyGetDigest(
                 create_authorized_policy_authorize(
                     esys_start_auth_session(
                         Esys_TR_GetName(
                             Esys_LoadExternal([t EXCEPT !.h["session_handle"] = UninitTR,
                                                         !.h["pub_key_handle"] = UninitTR,
                                                         !.d["public_key_name"] = NULL,
                                                         !.d["authorized_policy"] = NULL],
                                               pubKey, "pub_key_handle"),
                             "pub_key_handle", "public_key_name"),
                         "TPM2_SE_TRIAL", "session_handle")),
                 "session_handle", "authorized_policy"),
             "session_handle"), "pub_key_handle")

stored_key_read_native_public(t, key_file) ==
    CallData(t, "stored_key_read_native_public", [path |-> key_file.path], "pub_key",
             key_file.public)

\* a mutant of __pcr_policy_create_authorized: the authorized PCR policy is
\* computed over a bank whose registers hold non-zero values
create_authorized_over_nonzero_bank(t, pcr_selection, private_key_file) ==
    esys_create_authorized_policy(
        __pcr_policy_make(stored_key_read_native_public(t, private_key_file),
                          [pcr_bank_init_from_zero(
                               pcr_bank_initialize(pcr_selection.pcr_mask,
                                                   pcr_selection.algo_info))
                              EXCEPT !.pcr = [i \in DOMAIN @ |-> 1]]),
        private_key_file.public)

__pcr_policy_create_authorized(t, pcr_selection, private_key_file) ==
    esys_create_authorized_policy(
        __pcr_policy_make(stored_key_read_native_public(t, private_key_file),
                          pcr_bank_init_from_zero(
                              pcr_bank_initialize(pcr_selection.pcr_mask,
                                                  pcr_selection.algo_info))),
        private_key_file.public)

write_digest(t, path) ==
    Call(Call(t, "Tss2_MU_TPM2B_DIGEST_Marshal", [digest |-> t.d["authorized_policy"]]),
         "buffer_write_file", [path |-> path, what |-> "digest"])

\* the result is that of __pcr_policy_create_authorized, whatever write_digest did
authorized_policy_create_result(t, ok) == [t EXCEPT !.ok = ok]
authorized_policy_create_write(t, output_path) ==
    authorized_policy_create_result(write_digest(t, output_path), t.ok)

pcr_authorized_policy_create(t, pcr_selection, private_key_file, output_path) ==
    authorized_policy_create_write(
        __pcr_policy_create_authorized(t, pcr_selection, private_key_file), output_path)

\* ---- sealing --------------------------------------------------------------
read_digest(t, path, out, content) ==
    CallData(Call(t, "buffer_read_file", [path |-> path]),
             "Tss2_MU_TPM2B_DIGEST_Unmarshal", [path |-> path], out, content)

\* a mutant of the size check of read_secret: a secret of any size is accepted
secret_size_unchecked(t) == t

secret_size_check(t) ==
    IF t.ok /\ t.d["secret"].size > SensitiveDataMax
    THEN [t EXCEPT !.ok = FALSE, !.d["secret"] = NULL]
    ELSE t

read_secret(t, path, content) ==
    secret_size_check(CallData(t, "buffer_read_file", [path |-> path], "secret", content))

esys_create_primary(t, var) ==
    CallHandle(t, "Esys_CreatePrimary", [inPublic |-> t.srk], var, "primary", t.srk)

esys_create(t, srk_var, policy_var) ==
    CallData(t, "Esys_Create",
             [parent |-> t.h[srk_var], authPolicy |-> t.d[policy_var],
              secret |-> t.d["secret"]],
             "sealed", [authPolicy |-> t.d[policy_var], secret |-> t.d["secret"]])

write_sealed_secret(t, path) ==
    Call(Call(t, "Tss2_MU_TPM2B_PUBLIC_Marshal", [sealed |-> t.d["sealed"]]),
         "buffer_write_file", [path |-> path, what |-> "sealed"])

oldgrub_write_sealed_secret(t, pathname, pcr_sel) == write_sealed_secret(t, pathname)

tpm2key_add_policy_policypcr(t, pcr_sel) ==
    IF pcr_sel = NULL THEN t ELSE Call(t, "tpm2key_add_policy_policypcr", [pcr_sel |-> pcr_sel])

tpm2key_write_sealed_secret(t, pathname, pcr_sel) ==
    Call(tpm2key_add_policy_policypcr(
             Call(t, "tpm2key_basekey", [sealed |-> t.d["sealed"]]), pcr_sel),
         "tpm2key_write_file", [path |-> pathname, what |-> "sealed"])

target_platforms ==
    {[name |-> "oldgrub", write_sealed_secret |-> "oldgrub_write_sealed_secret",
      unseal_secret |-> "oldgrub_unseal_secret"],
     [name |-> "tpm2.0", write_sealed_secret |-> "tpm2key_write_sealed_secret",
      unseal_secret |-> "tpm2key_unseal_secret"],
     [name |-> "systemd", write_sealed_secret |-> "tpm2key_write_sealed_secret",
      unseal_secret |-> "NULL"]}

platform_write_sealed_secret(t, platform, output_path, pcr_sel) ==
    IF platform.write_sealed_secret = "oldgrub_write_sealed_secret"
    THEN oldgrub_write_sealed_secret(
             Note(t, "write_sealed_secret", [platform |-> platform.name]), output_path, pcr_sel)
    ELSE tpm2key_write_sealed_secret(
             Note(t, "write_sealed_secret", [platform |-> platform.name]), output_path, pcr_sel)

esys_seal_secret(t, platform, policy_var, pcr_sel, input, output_path) ==
    IF ~t.ok THEN t
    ELSE esys_flush_context(
             platform_write_sealed_secret(
                 esys_create(
                     esys_create_primary(
                         read_secret([t EXCEPT !.h["srk_handle"] = ESYS_TR_NONE,
                                               !.d["secret"] = NULL, !.d["sealed"] = NULL],
                                     input.path, input.secret),
                         "srk_handle"),
                     "srk_handle", policy_var),
                 platform, output_path, pcr_sel),
             "srk_handle")

pcr_seal_secret(t, platform, bank, input, output_path) ==
    esys_seal_secret(__pcr_policy_make(t, bank), platform, "pcr_policy",
                     pcr_bank_to_selection(bank), input, output_path)

pcr_authorized_policy_seal_secret(t, platform, authpolicy, input, output_path) ==
    esys_seal_secret(read_digest(t, authpolicy.path, "authorized_policy", authpolicy.digest),
                     platform, "authorized_policy", NULL, input, output_path)

old_pcr_authorized_policy_seal_secret(t, authpolicy, input, output_path) ==
    esys_flush_context(
        write_sealed_secret(
            Note(
                esys_create(
                    esys_create_primary(
                        read_digest(
                            read_secret([t EXCEPT !.h["srk_handle"] = ESYS_TR_NONE],
                                        input.path, input.secret),
                            authpolicy.path, "authorized_policy", authpolicy.digest),
                        "srk_handle"),
                    "srk_handle", "authorized_policy"),
                "write_sealed_secret", [platform |-> "oldgrub"]),
            output_path),
        "srk_handle")

\* ---- unsealing ------------------------------------------------------------
EmptyDigest == [size |-> 0]

Esys_Load(t, parent_var, var) ==
    CallHandle(t, "Esys_Load", [parent |-> t.h[parent_var], sealed |-> t.d["sealed"]],
               var, "sealed", t.d["sealed"])

Esys_Unseal(t, item_var, session_var) ==
    CallData(t, "Esys_Unseal", [item |-> t.h[item_var], session |-> t.h[session_var]],
             "unsealed", [unsealed_from |-> ObjData(t, item_var)])

Esys_Hash(t, in_var, hashAlg, out) ==
    CallData(t, "Esys_Hash", [data |-> t.d[in_var], hashAlg |-> hashAlg], out,
             [hashAlg |-> hashAlg, of |-> t.d[in_var]])

Esys_VerifySignature(t, key_var, digest_var, signature) ==
    CallData(t, "Esys_VerifySignature",
             [key |-> t.h[key_var], digest |-> t.d[digest_var], signature |-> signature],
             "verification_ticket", [verified |-> t.d[digest_var], by |-> ObjData(t, key_var)])

read_sealed_secret(t, path, content) ==
    CallData(Call(t, "buffer_read_file", [path |-> path]),
             "Tss2_MU_TPM2B_PUBLIC_Unmarshal", [path |-> path], "sealed", content)

read_signature(t, path, content) ==
    CallData(Call(t, "buffer_read_file", [path |-> path]),
             "Tss2_MU_TPMT_SIGNATURE_Unmarshal", [path |-> path], "policy_signature", content)

\* pcr_read_into_bank: one Esys_PCR_Read per chunk of eight wanted registers
RECURSIVE pcr_read_into_bank(_, _, _)
pcr_read_into_bank(t, bank, pcr_chunk_offset) ==
    IF pcr_chunk_offset >= PCR_BANK_REGISTER_MAX THEN t
    ELSE IF {i \in bank.pcr_mask : i \div 8 = pcr_chunk_offset \div 8} = {}
    THEN pcr_read_into_bank(t, bank, pcr_chunk_offset + 8)
    ELSE pcr_read_into_bank(Call(t, "Esys_PCR_Read", [chunk |-> pcr_chunk_offset]),
                            bank, pcr_chunk_offset + 8)

\* the buffer_write_file of the unsealed data; the result of the operation
\* is the one it had before
unseal_result(t, ok) == [t EXCEPT !.ok = ok]
\* a mutant of write_unsealed: the output is written whether or not anything
\* was unsealed
write_unsealed_always(t, output_path) ==
    unseal_result(Call(Recover(t), "buffer_write_file",
                       [path |-> output_path, what |-> "unsealed"]), t.ok)

write_unsealed(t, output_path) ==
    IF t.d["unsealed"] = NULL THEN t
    ELSE unseal_result(Call(Recover(t), "buffer_write_file",
                            [path |-> output_path, what |-> "unsealed"]), t.ok)

unseal_pcr_policy_session(t, pcrs) ==
    Esys_Unseal(
        Esys_PolicyPCR(
            esys_start_auth_session(Esys_Load(esys_create_primary(t, "primary_handle"),
                                              "primary_handle", "sealed_object_handle"),
                                    "TPM2_SE_POLICY", "session_handle"),
            "session_handle", EmptyDigest, pcrs),
        "sealed_object_handle", "session_handle")

esys_unseal_pcr_policy(t, bank) ==
    IF ~t.ok THEN t
    ELSE esys_flush_context(esys_flush_context(esys_flush_context(
             unseal_pcr_policy_session([t EXCEPT !.h["session_handle"] = ESYS_TR_NONE,
                                                 !.h["primary_handle"] = ESYS_TR_NONE,
                                                 !.h["sealed_object_handle"] = ESYS_TR_NONE],
                                       pcr_bank_to_selection(bank)),
             "session_handle"), "primary_handle"), "sealed_object_handle")

pcr_unseal_secret_pcr(t, pcr_selection, input, output_path, live) ==
    write_unsealed(
        esys_unseal_pcr_policy(
            pcr_read_into_bank(read_sealed_secret(t, input.path, input.sealed),
                               pcr_bank_initialize(pcr_selection.pcr_mask,
                                                   pcr_selection.algo_info), 0),
            pcr_bank_init_from_current(
                pcr_bank_initialize(pcr_selection.pcr_mask, pcr_selection.algo_info), live)),
        output_path)

\* a mutant of unseal_authorized_policy_authorize: the fixed ticket of the trial
\* session in place of the ticket VerifySignature returned
unseal_authorized_policy_authorize_unverified(t) ==
    Esys_PolicyAuthorize(t, "session_handle", t.d["pcr_policy"], EmptyNonce,
                         t.d["public_key_name"], check_ticket)

unseal_authorized_policy_authorize(t) ==
    Esys_PolicyAuthorize(t, "session_handle", t.d["pcr_policy"], EmptyNonce,
                         t.d["public_key_name"], t.d["verification_ticket"])

unseal_authorized_load(t, pub_key) ==
    Esys_Load(
        esys_create_primary(
            Esys_TR_GetName(Esys_LoadExternal(t, pub_key, "pub_key_handle"),
                            "pub_key_handle", "public_key_name"),
            "primary_handle"),
        "primary_handle", "sealed_object_handle")

unseal_authorized_session(t, pcrs, policy_signature) ==
    Esys_Unseal(
        unseal_authorized_policy_authorize(
            Esys_VerifySignature(
                Esys_Hash(
                    Esys_PolicyGetDigest(
                        Esys_PolicyPCR(
                            esys_start_auth_session(t, "TPM2_SE_POLICY", "session_handle"),
                            "session_handle", EmptyDigest, pcrs),
                        "session_handle", "pcr_policy"),
                    "pcr_policy", TPM2_ALG_SHA256, "pcr_policy_hash"),
                "pub_key_handle", "pcr_policy_hash", policy_signature)),
        "sealed_object_handle", "session_handle")

esys_unseal_authorized(t, bank, policy_signature, pub_key) ==
    IF ~t.ok THEN t
    ELSE esys_flush_context(esys_flush_context(esys_flush_context(esys_flush_context(
             unseal_authorized_session(
                 unseal_authorized_load([t EXCEPT !.h["pub_key_handle"] = ESYS_TR_NONE,
                                                  !.h["session_handle"] = ESYS_TR_NONE,
                                                  !.h["primary_handle"] = ESYS_TR_NONE,
                                                  !.h["sealed_object_handle"] = ESYS_TR_NONE],
                                        pub_key),
                 pcr_bank_to_selection(bank), policy_signature),
             "pub_key_handle"), "session_handle"), "primary_handle"), "sealed_object_handle")

pcr_authorized_policy_unseal_secret(t, pcr_selection, signed_policy, public_key_file, input, output_path, live) ==
    write_unsealed(
        esys_unseal_authorized(
            pcr_read_into_bank(
                read_signature(
                    read_sealed_secret(stored_key_read_native_public(t, public_key_file),
                                       input.path, input.sealed),
                    signed_policy.path, signed_policy.signature),
                pcr_bank_initialize(pcr_selection.pcr_mask, pcr_selection.algo_info), 0),
            pcr_bank_init_from_current(
                pcr_bank_initialize(pcr_selection.pcr_mask, pcr_selection.algo_info), live),
            signed_policy.signature, public_key_file.public),
        output_path)

oldgrub_unseal_secret(t, input, output_path, pcr_selection, signed_policy, public_key_file, live) ==
    IF signed_policy = NULL
    THEN pcr_unseal_secret_pcr(t, pcr_selection, input, output_path, live)
    ELSE pcr_authorized_policy_unseal_secret(t, pcr_selection, signed_policy,
                                             public_key_file, input, output_path, live)

\* ---- TPM 2.0 Key File -----------------------------------------------------
TPM2_CC_PolicyPCR == "TPM2_CC_PolicyPCR"
TPM2_CC_PolicyAuthorize == "TPM2_CC_PolicyAuthorize"

__pcr_policy_tpm2_policypcr(t, bp) ==
    Esys_PolicyPCR(
        Call(Call(t, "Tss2_MU_TPM2B_DIGEST_Unmarshal", [entry |-> bp.id]),
             "Tss2_MU_TPML_PCR_SELECTION_Unmarshal", [entry |-> bp.id]),
        "session_handle", bp.digest, bp.pcrs)

policyauthorize_unmarshal(t, bp) ==
    Call(Call(Call(t, "Tss2_MU_TPM2B_PUBLIC_Unmarshal", [entry |-> bp.id]),
              "Tss2_MU_TPM2B_DIGEST_Unmarshal", [entry |-> bp.id]),
         "Tss2_MU_TPMT_SIGNATURE_Unmarshal", [entry |-> bp.id])

policyauthorize_authorize(t, bp) ==
    Esys_PolicyAuthorize(t, "session_handle", t.d["pcr_policy"], bp.policy_ref,
                         t.d["public_key_name"], t.d["verification_ticket"])

policyauthorize_body(t, bp) ==
    policyauthorize_authorize(
        Esys_VerifySignature(
            Esys_TR_GetName(
                Esys_LoadExternal(
                    Esys_Hash(Esys_PolicyGetDigest(t, "session_handle", "pcr_policy"),
                              "pcr_policy", bp.sig_hash_alg, "pcr_policy_hash"),
                    bp.pub_key, "pub_key_handle"),
                "pub_key_handle", "public_key_name"),
            "pub_key_handle", "pcr_policy_hash", bp.signature),
        bp)

\* the three unmarshalling steps return false at once; from the first ESYS
\* call on the function leaves through its cleanup label
__pcr_policy_tpm2_policyauthorize(t, bp) ==
    IF ~t.ok THEN t
    ELSE esys_flush_context(
             policyauthorize_body(
                 policyauthorize_unmarshal([t EXCEPT !.h["pub_key_handle"] = ESYS_TR_NONE],
                                           bp),
                 bp),
             "pub_key_handle")

\* a mutant of policy_seq_command: an unsupported command code is skipped
policy_seq_command_lenient(t, policy, i) ==
    IF ~t.ok THEN t
    ELSE IF policy.CommandCode = TPM2_CC_PolicyPCR
    THEN __pcr_policy_tpm2_policypcr(
             Note(t, "policy_command", [index |-> i, code |-> policy.CommandCode]),
             policy.CommandPolicy)
    ELSE IF policy.CommandCode = TPM2_CC_PolicyAuthorize
    THEN __pcr_policy_tpm2_policyauthorize(
             Note(t, "policy_command", [index |-> i, code |-> policy.CommandCode]),
             policy.CommandPolicy)
    ELSE Note(t, "policy_command", [index |-> i, code |-> policy.CommandCode])

policy_seq_command(t, policy, i) ==
    IF ~t.ok THEN t
    ELSE IF policy.CommandCode = TPM2_CC_PolicyPCR
    THEN __pcr_policy_tpm2_policypcr(
             Note(t, "policy_command", [index |-> i, code |-> policy.CommandCode]),
             policy.CommandPolicy)
    ELSE IF policy.CommandCode = TPM2_CC_PolicyAuthorize
    THEN __pcr_policy_tpm2_policyauthorize(
             Note(t, "policy_command", [index |-> i, code |-> policy.CommandCode]),
             policy.CommandPolicy)
    ELSE Fail(Note(t, "policy_command", [index |-> i, code |-> policy.CommandCode]))

RECURSIVE policy_seq_loop(_, _, _)
policy_seq_loop(t, policy_seq, i) ==
    IF i > Len(policy_seq) THEN t
    ELSE policy_seq_loop(policy_seq_command(t, policy_seq[i], i), policy_seq, i + 1)

__pcr_policy_unseal_policy_seq(t, policy_seq) ==
    IF ~t.ok THEN t
    ELSE esys_flush_context(
             Esys_Unseal(
                 policy_seq_loop(
                     esys_start_auth_session([t EXCEPT !.h["session_handle"] = ESYS_TR_NONE],
                                             "TPM2_SE_POLICY", "session_handle"),
                     policy_seq, 1),
                 "sealed_object_handle", "session_handle"),
             "session_handle")

RECURSIVE tpm2key_unseal_authpolicies(_, _, _)
\* okay = __pcr_policy_unseal_policy_seq(...); if (okay) break;
tpm2key_unseal_next(t, authPolicy, i) ==
    IF t.ok THEN t ELSE tpm2key_unseal_authpolicies(t, authPolicy, i + 1)

tpm2key_unseal_authpolicies(t, authPolicy, i) ==
    IF i > Len(authPolicy) THEN t
    ELSE tpm2key_unseal_next(
             __pcr_policy_unseal_policy_seq(
                 Note(Recover(t), "authPolicy", [index |-> i]), authPolicy[i].policy),
             authPolicy, i)

\* bool okay = false, until a policy sequence unsealed
tpm2key_unseal_policies(t, tpm2key) ==
    IF ~t.ok THEN t
    ELSE IF tpm2key.has_authPolicy
    THEN tpm2key_unseal_authpolicies(Fail(t), tpm2key.authPolicy, 1)
    ELSE IF tpm2key.has_policy
    THEN __pcr_policy_unseal_policy_seq(Note(t, "policy", [index |-> 0]), tpm2key.policy)
    ELSE Fail(t)

tpm2key_load(t, input) ==
    Esys_Load(
        esys_create_primary(
            CallData(
                Call(Call(t, "tpm2key_read_file", [path |-> input.path]),
                     "Tss2_MU_TPM2B_PUBLIC_Unmarshal", [path |-> input.path]),
                "Tss2_MU_TPM2B_PRIVATE_Unmarshal", [path |-> input.path], "sealed",
                input.sealed),
            "primary_handle"),
        "primary_handle", "sealed_object_handle")

tpm2key_unseal_secret(t, input, output_path) ==
    esys_flush_context(esys_flush_context(
        write_unsealed(
            tpm2key_unseal_policies(
                tpm2key_load([t EXCEPT !.h["primary_handle"] = ESYS_TR_NONE,
                                       !.h["sealed_object_handle"] = ESYS_TR_NONE],
                             input),
                input.tpm2key),
            output_path),
        "primary_handle"), "sealed_object_handle")

pcr_unseal_secret_new(t, platform, pcr_selection, signed_policy, public_key_file, input, output_path, live) ==
    IF platform.unseal_secret = "NULL" THEN Fail(t)
    ELSE IF platform.unseal_secret = "oldgrub_unseal_secret"
    THEN oldgrub_unseal_secret(t, input, output_path, pcr_selection, signed_policy,
                               public_key_file, live)
    ELSE tpm2key_unseal_secret(t, input, output_path)

\* ---- the SRK template -----------------------------------------------------
InitialSRK ==
    [type |-> "TPM2_ALG_RSA", nameAlg |-> "TPM2_ALG_SHA256",
     objectAttributes |-> {"RESTRICTED", "DECRYPT", "FIXEDTPM", "FIXEDPARENT",
                           "SENSITIVEDATAORIGIN", "USERWITHAUTH", "NODA"},
     symmetric |-> [algorithm |-> "TPM2_ALG_AES", keyBits |-> 128, mode |-> "TPM2_ALG_CFB"],
     scheme |-> "TPM2_ALG_NULL",
     keyBits |-> 2048]

\* a mutant of set_srk_rsa_bits: the setter also changes the name algorithm
set_srk_rsa_bits_and_name_alg(template, rsa_bits) ==
    [template EXCEPT !.keyBits = rsa_bits % 65536, !.nameAlg = "TPM2_ALG_SHA1"]

\* keyBits is a 16-bit field
set_srk_rsa_bits(template, rsa_bits) == [template EXCEPT !.keyBits = rsa_bits % 65536]

(***************************************************************************)
(* SpecPolicy: a process sets the SRK key size (option parsing) and then   *)
(* runs one operation of the policy builder.                               *)
(***************************************************************************)
MaxSets == 1
MaxSteps == 20
MaxFailures == 2

RECURSIVE FailScripts(_)
\* the sets of at most k failing calls
FailScripts(k) ==
    IF k = 0 THEN {{}}
    ELSE FailScripts(k - 1) \cup {s \cup {i} : s \in FailScripts(k - 1), i \in 1..MaxSteps}

SrkRsaBits == {1024, 2048, 3072, 4096}

Sha256 == [tcg_id |-> TPM2_ALG_SHA256, digest_size |-> 32]
Sha1 == [tcg_id |-> TPM2_ALG_SHA1, digest_size |-> 20]
\* simulated banks: valid_mask within pcr_mask, a value in every valid register
Bank(pcr_mask, valid_mask, base) ==
    [pcr_mask |-> pcr_mask, valid_mask |-> valid_mask, algo_info |-> Sha256,
     pcr |-> [i \in 0..(PCR_BANK_REGISTER_MAX - 1) |->
                 IF i \in valid_mask THEN base + i ELSE ZeroDigest]]
Banks ==
    UNION {{Bank(pm, vm, 1) : vm \in SUBSET pm} : pm \in {{0, 8}, {7, 8, 23}}}
        \cup {Bank({0, 8}, {0, 8}, 40)}

PcrSelections ==
    [pcr_mask : {{}, {0}, {0, 8, 23}, {8, 24}}, algo_info : {Sha256}]
        \cup {[pcr_mask |-> {0, 8, 23}, algo_info |-> Sha1]}
LiveBanks == {[i \in 0..(PCR_BANK_REGISTER_MAX - 1) |-> v + i] : v \in {1, 40}}

KeyFiles == {[path |-> "key", public |-> [rsa |-> k]] : k \in {1, 2}}
SecretFiles == {[path |-> "in", secret |-> [size |-> n]] : n \in {32, SensitiveDataMax, SensitiveDataMax + 1}}
AuthPolicyFiles == {[path |-> "authpolicy", digest |-> [policy |-> <<[cc |-> "PolicyAuthorize",
                        keySign |-> [name_of |-> [rsa |-> 1]], policyRef |-> EmptyNonce]>>]]}
SealedBlob == [authPolicy |-> [policy |-> <<>>], secret |-> [size |-> 32]]
SignedPolicies == {NULL, [path |-> "sig", signature |-> [sigAlg |-> "TPM2_ALG_RSASSA"]]}

PolicyPCREntry(id) ==
    [CommandCode |-> TPM2_CC_PolicyPCR,
     CommandPolicy |-> [id |-> id, digest |-> [size |-> 32, id |-> id],
                        pcrs |-> __pcr_selection_build({0, 8}, Sha256)]]
PolicyAuthorizeEntry(id) ==
    [CommandCode |-> TPM2_CC_PolicyAuthorize,
     CommandPolicy |-> [id |-> id, pub_key |-> [rsa |-> 1], policy_ref |-> [size |-> 0, id |-> id],
                        signature |-> [sigAlg |-> "TPM2_ALG_RSASSA"],
                        sig_hash_alg |-> TPM2_ALG_SHA256]]
PolicyOtherEntry(id) ==
    [CommandCode |-> "TPM2_CC_PolicyOR", CommandPolicy |-> [id |-> id]]

Tpm2Key(has_authPolicy, authPolicy, has_policy, policy) ==
    [has_authPolicy |-> has_authPolicy, authPolicy |-> authPolicy,
     has_policy |-> has_policy, policy |-> policy]
AuthPolicy(name, policy) == [name |-> name, policy |-> policy]

Tpm2Keys ==
    {Tpm2Key(FALSE, <<>>, TRUE, <<PolicyPCREntry(1)>>),
     Tpm2Key(FALSE, <<>>, TRUE, <<PolicyPCREntry(1), PolicyAuthorizeEntry(2)>>),
     Tpm2Key(FALSE, <<>>, TRUE, <<PolicyPCREntry(1), PolicyOtherEntry(2), PolicyPCREntry(3)>>),
     Tpm2Key(FALSE, <<>>, TRUE, <<>>),
     Tpm2Key(FALSE, <<>>, FALSE, <<>>),
     Tpm2Key(TRUE, <<>>, TRUE, <<PolicyPCREntry(1)>>),
     Tpm2Key(TRUE, <<AuthPolicy("a", <<PolicyPCREntry(1), PolicyPCREntry(2)>>),
                     AuthPolicy("b", <<PolicyPCREntry(3)>>)>>, FALSE, <<>>),
     Tpm2Key(TRUE, <<AuthPolicy("a", <<PolicyOtherEntry(1), PolicyPCREntry(2)>>),
                     AuthPolicy("b", <<PolicyPCREntry(3)>>)>>, TRUE, <<PolicyPCREntry(5)>>)}

SealedFiles == {[path |-> "sealed", sealed |-> SealedBlob, tpm2key |-> k] : k \in Tpm2Keys}
OldgrubSealedFile == [path |-> "sealed", sealed |-> SealedBlob, tpm2key |-> Tpm2Key(FALSE, <<>>, FALSE, <<>>)]

Garbage == {ESYS_TR_NONE, 1, 4095}

IdleReader ==
    /\ recs = [mid |-> <<>>, last |-> "none", lay |-> "v1", cut |-> 0]
    /\ file = MakeFile(recs)
    /\ InitReader

InitPolicy ==
    /\ IdleReader
    /\ IdleEvent
    /\ IdleVercmp
    /\ IdleSdb
    /\ SRK_template = InitialSRK
    /\ sets = 0
    /\ run = NULL
    /\ tpm = NULL

\* option parsing: --rsa-bits
SetSrkRsaBits ==
    /\ run = NULL
    /\ sets < MaxSets
    /\ \E rsa_bits \in SrkRsaBits : SRK_template' = set_srk_rsa_bits(SRK_template, rsa_bits)
    /\ sets' = sets + 1
    /\ UNCHANGED <<rvars, evars, vvars, svars, run, tpm>>

SealCases ==
    {[platform |-> p, bank |-> Bank({0, 8}, {0, 8}, 1), input |-> i] :
        p \in target_platforms, i \in SecretFiles}
    \cup {[platform |-> p, bank |-> b, input |-> [path |-> "in", secret |-> [size |-> 32]]] :
        p \in {q \in target_platforms : q.name = "tpm2.0"}, b \in Banks}

PcrSealSecret ==
    /\ run = NULL
    /\ \E c \in SealCases, fails \in FailScripts(MaxFailures) :
          /\ tpm' = pcr_seal_secret(Process(fails, ESYS_TR_NONE, SRK_template), c.platform,
                                    c.bank, c.input, "out")
          /\ run' = [op |-> "pcr_seal_secret", platform |-> c.platform, bank |-> c.bank,
                     input |-> c.input]
    /\ UNCHANGED <<rvars, evars, vvars, svars, SRK_template, sets>>

PcrAuthorizedPolicySealSecret ==
    /\ run = NULL
    /\ \E platform \in target_platforms, authpolicy \in AuthPolicyFiles,
          input \in SecretFiles, fails \in FailScripts(MaxFailures) :
          /\ platform.name = "oldgrub" \/ input.secret.size = 32
          /\ tpm' = pcr_authorized_policy_seal_secret(
                        Process(fails, ESYS_TR_NONE, SRK_template), platform, authpolicy,
                        input, "out")
          /\ run' = [op |-> "pcr_authorized_policy_seal_secret", platform |-> platform,
                     input |-> input]
    /\ UNCHANGED <<rvars, evars, vvars, svars, SRK_template, sets>>

OldPcrAuthorizedPolicySealSecret ==
    /\ run = NULL
    /\ \E authpolicy \in AuthPolicyFiles, input \in SecretFiles,
          fails \in FailScripts(MaxFailures) :
          /\ tpm' = old_pcr_authorized_policy_seal_secret(
                        Process(fails, ESYS_TR_NONE, SRK_template), authpolicy, input, "out")
          /\ run' = [op |-> "old_pcr_authorized_policy_seal_secret", input |-> input]
    /\ UNCHANGED <<rvars, evars, vvars, svars, SRK_template, sets>>

PcrAuthorizedPolicyCreate ==
    /\ run = NULL
    /\ \E pcr_selection \in PcrSelections, key \in KeyFiles, garbage \in Garbage,
          fails \in FailScripts(MaxFailures) :
          /\ tpm' = pcr_authorized_policy_create(
                        Process(fails, garbage, SRK_template), pcr_selection, key, "out")
          /\ run' = [op |-> "pcr_authorized_policy_create", pcr_selection |-> pcr_selection,
                     key |-> key]
    /\ UNCHANGED <<rvars, evars, vvars, svars, SRK_template, sets>>

UnsealCases ==
    {[platform |-> p, pcr_selection |-> sel, signed_policy |-> sp,
      public_key_file |-> [path |-> "key", public |-> [rsa |-> 1]],
      input |-> OldgrubSealedFile, live |-> live] :
        p \in {q \in target_platforms : q.name = "oldgrub"},
        sel \in {x \in PcrSelections : x.algo_info = Sha256}, sp \in SignedPolicies,
        live \in LiveBanks}
    \cup {[platform |-> p, pcr_selection |-> [pcr_mask |-> {}, algo_info |-> Sha256],
           signed_policy |-> NULL,
           public_key_file |-> [path |-> "key", public |-> [rsa |-> 1]],
           input |-> f, live |-> [i \in 0..(PCR_BANK_REGISTER_MAX - 1) |-> 1 + i]] :
        p \in {q \in target_platforms : q.name # "oldgrub"}, f \in SealedFiles}

PcrUnsealSecretNew ==
    /\ run = NULL
    /\ \E c \in UnsealCases, fails \in FailScripts(MaxFailures) :
          /\ tpm' = pcr_unseal_secret_new(
                        Process(fails, ESYS_TR_NONE, SRK_template), c.platform,
                        c.pcr_selection, c.signed_policy, c.public_key_file, c.input, "out",
                        c.live)
          /\ run' = [op |-> "pcr_unseal_secret_new", platform |-> c.platform,
                     pcr_selection |-> c.pcr_selection, signed_policy |-> c.signed_policy,
                     input |-> c.input]
    /\ UNCHANGED <<rvars, evars, vvars, svars, SRK_template, sets>>

NextPolicy ==
    \/ SetSrkRsaBits
    \/ PcrSealSecret
    \/ PcrAuthorizedPolicySealSecret
    \/ OldPcrAuthorizedPolicySealSecret
    \/ PcrAuthorizedPolicyCreate
    \/ PcrUnsealSecretNew

SpecPolicy == InitPolicy /\ [][NextPolicy]_vars

(***************************************************************************)
(* C11: the PCR digest and the PCR selection of pcr_policy_digest.         *)
(***************************************************************************)
RanOp(op) == run # NULL /\ run.op = op

MinOf(S) == CHOOSE x \in S : \A y \in S : x <= y

RECURSIVE InIncreasingOrder(_)
\* the elements of a set of register indices, smallest first
InIncreasingOrder(S) ==
    IF S = {} THEN <<>> ELSE <<MinOf(S)>> \o InIncreasingOrder(S \ {MinOf(S)})

\* the values of the valid registers of a bank, by increasing index
ValidValues(bank) ==
    [k \in 1..Cardinality(Mask24(bank.valid_mask)) |->
        bank.pcr[InIncreasingOrder(Mask24(bank.valid_mask))[k]]]

\* the registers a TPML_PCR_SELECTION selects
SelectedRegisters(sel) ==
    IF sel.count = 0 THEN {}
    ELSE {i \in 0..(PCR_BANK_REGISTER_MAX - 1) : BitIsSet(sel.pcrSelect[(i \div 8) + 1], i % 8)}

PolicyPCRCalls == {k \in DOMAIN tpm.log : tpm.log[k].cmd = "Esys_PolicyPCR"}

\* C11: whenever pcr_seal_secret reaches PolicyPCR for a simulated bank, the
\* PCR digest it feeds is the hash, under the bank's algorithm, of the values
\* of exactly the registers of valid_mask in increasing index order, and the
\* selection it passes selects exactly those registers and equals the
\* selection built from valid_mask & 0xFFFFFF; registers that are requested
\* in pcr_mask but not valid appear in neither.
Theorem_C11 ==
    RanOp("pcr_seal_secret") =>
        \A k \in PolicyPCRCalls :
            /\ tpm.log[k].arg.pcrDigest =
                   [hashAlg |-> run.bank.algo_info.tcg_id, of |-> ValidValues(run.bank)]
            /\ SelectedRegisters(tpm.log[k].arg.pcrs) = Mask24(run.bank.valid_mask)
            /\ tpm.log[k].arg.pcrs =
                   __pcr_selection_build(Mask24(run.bank.valid_mask), run.bank.algo_info)

\* a seal over a bank with two valid registers in different bytes of the
\* selection and a third register requested but not valid
Witness_C11 ==
    /\ RanOp("pcr_seal_secret")
    /\ tpm.ok
    /\ run.bank.pcr_mask = {7, 8, 23}
    /\ run.bank.valid_mask = {7, 23}
    /\ \E k \in PolicyPCRCalls : tpm.log[k].ok

\* the digest that TPM2_PolicyAuthorize leaves in a session for a signing key
AuthorizedDigest(pub) ==
    [policy |-> <<[cc |-> "PolicyAuthorize", keySign |-> [name_of |-> pub],
                   policyRef |-> EmptyNonce]>>]

\* the PolicyPCR policy of a selection whose registers are all zero
ZeroPolicy(sel) ==
    [policy |-> <<[cc |-> "PolicyPCR",
                   pcrs |-> __pcr_selection_build(sel.pcr_mask, sel.algo_info),
                   pcrDigest |-> [hashAlg |-> sel.algo_info.tcg_id,
                                  of |-> [i \in 1..Cardinality(Mask24(sel.pcr_mask)) |-> ZeroDigest]]]>>]

PolicyAuthorizeCalls == {k \in DOMAIN tpm.log : tpm.log[k].cmd = "Esys_PolicyAuthorize"}

\* C12: a successful __pcr_policy_create_authorized yields the digest that
\* PolicyAuthorize makes of the name of the public key and the empty policy
\* reference, so it is determined by the selection and the key alone; the PCR
\* policy it has authorized is the PolicyPCR policy of the selection computed
\* over all-zero register values, never over the values of some other bank.
Theorem_C12 ==
    (RanOp("pcr_authorized_policy_create") /\ tpm.ok) =>
        /\ tpm.d["authorized_policy"] = AuthorizedDigest(run.key.public)
        /\ PolicyAuthorizeCalls # {}
        /\ \A k \in PolicyAuthorizeCalls :
               tpm.log[k].arg.approvedPolicy = ZeroPolicy(run.pcr_selection)

\* an authorized policy made for three registers of three selection bytes
Witness_C12 ==
    /\ RanOp("pcr_authorized_policy_create")
    /\ tpm.ok
    /\ run.pcr_selection.pcr_mask = {0, 8, 23}
    /\ run.key.public = [rsa |-> 2]
    /\ tpm.d["authorized_policy"] = AuthorizedDigest([rsa |-> 2])

SealOps == {"pcr_seal_secret", "pcr_authorized_policy_seal_secret",
            "old_pcr_authorized_policy_seal_secret"}

RanSeal == run # NULL /\ run.op \in SealOps

\* invocations of the platform's write_sealed_secret, and files it has written
WriteSealedCalls == {k \in DOMAIN tpm.log : tpm.log[k].cmd = "write_sealed_secret"}
SealedFilesWritten ==
    {k \in DOMAIN tpm.log : /\ tpm.log[k].cmd \in {"buffer_write_file", "tpm2key_write_file"}
                            /\ tpm.log[k].arg.what = "sealed"}

\* the call cmd has succeeded before position k of the log
SucceededBefore(k, cmds) ==
    \E j \in 1..(k - 1) : tpm.log[j].cmd \in cmds /\ tpm.log[j].ok

SecretReadBefore(k) ==
    \E j \in 1..(k - 1) : /\ tpm.log[j].cmd = "buffer_read_file"
                          /\ tpm.log[j].arg.path = run.input.path
                          /\ tpm.log[j].ok

\* the commands that obtain the policy digest, read the secret and create the
\* primary and the sealed object
SealSteps ==
    {"Esys_HashSequenceStart", "Esys_SequenceUpdate", "Esys_SequenceComplete",
     "Esys_StartAuthSession", "Esys_PolicyPCR", "Esys_PolicyGetDigest",
     "buffer_read_file", "Tss2_MU_TPM2B_DIGEST_Unmarshal",
     "Esys_CreatePrimary", "Esys_Create"}

SealStepFailed ==
    \/ \E k \in DOMAIN tpm.log : tpm.log[k].cmd \in SealSteps /\ ~tpm.log[k].ok
    \/ /\ \E k \in DOMAIN tpm.log : /\ tpm.log[k].cmd = "buffer_read_file"
                                    /\ tpm.log[k].arg.path = run.input.path
                                    /\ tpm.log[k].ok
       /\ run.input.secret.size > SensitiveDataMax

\* C13: in every run of one of the three seal operations write_sealed_secret is
\* invoked at most once, and every invocation and every sealed file written
\* comes after the policy digest was obtained, the secret was read and found
\* to be at most the sealable maximum, CreatePrimary succeeded and Create
\* succeeded; when one of these steps fails the operation returns false and
\* neither invokes write_sealed_secret nor writes a sealed file.
Theorem_C13 ==
    RanSeal =>
        /\ Cardinality(WriteSealedCalls) <= 1
        /\ \A k \in WriteSealedCalls \cup SealedFilesWritten :
              /\ SucceededBefore(k, IF run.op = "pcr_seal_secret"
                                    THEN {"Esys_PolicyGetDigest"}
                                    ELSE {"Tss2_MU_TPM2B_DIGEST_Unmarshal"})
              /\ SecretReadBefore(k)
              /\ run.input.secret.size <= SensitiveDataMax
              /\ SucceededBefore(k, {"Esys_CreatePrimary"})
              /\ SucceededBefore(k, {"Esys_Create"})
        /\ SealStepFailed =>
              /\ ~tpm.ok
              /\ WriteSealedCalls = {}
              /\ SealedFilesWritten = {}

\* a seal of a secret of exactly the maximum size that wrote its file
Witness_C13 ==
    /\ RanSeal
    /\ tpm.ok
    /\ run.input.secret.size = SensitiveDataMax
    /\ Cardinality(WriteSealedCalls) = 1
    /\ \E k \in SealedFilesWritten : tpm.log[k].ok

\* the handles an operation has acquired and not released when it returns
OpenHandles == {i \in DOMAIN tpm.objs : tpm.objs[i].open}

\* C14: when a policy-builder operation has returned, on the success path and
\* on every error path, no session handle and no transient object handle
\* (primary, loaded sealed object, externally loaded public key, policy or
\* trial session, hash sequence) that it acquired is still open.
Counterexample_C14 ==
    run # NULL => OpenHandles = {}

\* the steps of an unseal operation up to and including Unseal that failed
FailedUnsealSteps ==
    {k \in DOMAIN tpm.log :
        \/ ~tpm.log[k].ok /\ tpm.log[k].cmd \notin {"Esys_FlushContext", "buffer_write_file"}
        \/ /\ tpm.log[k].cmd = "policy_command"
           /\ tpm.log[k].arg.code \notin {TPM2_CC_PolicyPCR, TPM2_CC_PolicyAuthorize}}

SuccessfulUnseals ==
    {k \in DOMAIN tpm.log : tpm.log[k].cmd = "Esys_Unseal" /\ tpm.log[k].ok}

OutputWrites ==
    {k \in DOMAIN tpm.log : /\ tpm.log[k].cmd = "buffer_write_file"
                            /\ tpm.log[k].arg.what = "unsealed"}

\* the policy sequence of a TPM 2.0 Key File that step k belongs to: the
\* position in the log where the sequence began, 0 for a step before the
\* first sequence and for every step of the oldgrub paths
AttemptStarts == {j \in DOMAIN tpm.log : tpm.log[j].cmd \in {"authPolicy", "policy"}}
AttemptOf(k) ==
    IF \E j \in AttemptStarts : j <= k
    THEN CHOOSE j \in AttemptStarts : j <= k /\ \A i \in AttemptStarts : i <= k => i <= j
    ELSE 0

NoUnsealPlatform ==
    run.platform.name = "systemd" => ~tpm.ok /\ tpm.log = <<>>

\* C15 as stated: on each unseal path, if any step up to and including Unseal
\* fails, the operation returns false and the output file is never written;
\* on the systemd platform pcr_unseal_secret_new returns false without any
\* TPM command and without writing a file.
Counterexample_C15 ==
    RanOp("pcr_unseal_secret_new") =>
        /\ FailedUnsealSteps # {} => ~tpm.ok /\ OutputWrites = {}
        /\ NoUnsealPlatform

\* C15, amended: the operation returns false and writes no output file when
\* no Unseal succeeded; a step that fails before the first policy sequence,
\* or on an oldgrub path, excludes a successful Unseal altogether, and a step
\* that fails inside one policy sequence of a TPM 2.0 Key File excludes a
\* successful Unseal in that sequence only; on the systemd platform the
\* operation returns false without any TPM command and without writing a file.
Theorem_C15 ==
    RanOp("pcr_unseal_secret_new") =>
        /\ SuccessfulUnseals = {} => ~tpm.ok /\ OutputWrites = {}
        /\ \A k \in FailedUnsealSteps : \A u \in SuccessfulUnseals :
               AttemptOf(k) # 0 /\ AttemptOf(u) # AttemptOf(k)
        /\ NoUnsealPlatform

\* a key file whose first authPolicy sequence failed and whose second unsealed
Witness_C15 ==
    /\ RanOp("pcr_unseal_secret_new")
    /\ run.platform.name = "tpm2.0"
    /\ FailedUnsealSteps # {}
    /\ SuccessfulUnseals # {}
    /\ tpm.ok
    /\ \E k \in OutputWrites : tpm.log[k].ok

RanKeyFile == RanOp("pcr_unseal_secret_new") /\ run.platform.name = "tpm2.0"

\* the steps of the policy sequence that began at position j of the log
Segment(j) == {k \in DOMAIN tpm.log : AttemptOf(k) = j}
PolicySeqOf(j) ==
    IF tpm.log[j].cmd = "policy" THEN run.input.tpm2key.policy
    ELSE run.input.tpm2key.authPolicy[tpm.log[j].arg.index].policy
CommandsOf(j) == {k \in Segment(j) : tpm.log[k].cmd = "policy_command"}
SessionCalls(j) ==
    {k \in Segment(j) : tpm.log[k].cmd \in {"Esys_PolicyPCR", "Esys_PolicyAuthorize",
                                             "Esys_PolicyGetDigest", "Esys_Unseal"}}
\* the entry being applied at step k
EntryAt(j, k) ==
    PolicySeqOf(j)[Cardinality({c \in CommandsOf(j) : c <= k})].CommandPolicy

\* entries are taken in array order, with their own command code and data
AppliedInOrder(j) ==
    /\ \A k \in CommandsOf(j) :
          /\ tpm.log[k].arg.index = Cardinality({c \in CommandsOf(j) : c <= k})
          /\ tpm.log[k].arg.index <= Len(PolicySeqOf(j))
          /\ tpm.log[k].arg.code = PolicySeqOf(j)[tpm.log[k].arg.index].CommandCode
    /\ \A k \in Segment(j) :
          /\ tpm.log[k].cmd = "Esys_PolicyPCR" =>
                 /\ tpm.log[k].arg.pcrDigest = EntryAt(j, k).digest
                 /\ tpm.log[k].arg.pcrs = EntryAt(j, k).pcrs
          /\ tpm.log[k].cmd = "Esys_PolicyAuthorize" =>
                 tpm.log[k].arg.policyRef = EntryAt(j, k).policy_ref

\* one POLICY session, started by this sequence, carries all its commands
OneFreshSession(j) ==
    /\ tpm.log[j + 1].cmd = "Esys_StartAuthSession"
    /\ tpm.log[j + 1].arg.sessionType = "TPM2_SE_POLICY"
    /\ \A k \in SessionCalls(j) :
          /\ tpm.log[j + 1].ok
          /\ tpm.objs[tpm.log[k].arg.session].kind = "session"
          /\ \A c \in SessionCalls(j) : tpm.log[c].arg.session = tpm.log[k].arg.session
          /\ \A i \in AttemptStarts \ {j} : \A c \in SessionCalls(i) :
                 tpm.log[c].arg.session # tpm.log[k].arg.session

\* Unseal comes after every entry of the sequence was applied successfully
UnsealAfterAllEntries(j) ==
    \A u \in Segment(j) :
        tpm.log[u].cmd = "Esys_Unseal" =>
            /\ Cardinality(CommandsOf(j)) = Len(PolicySeqOf(j))
            /\ \A k \in CommandsOf(j) :
                  /\ k < u
                  /\ tpm.log[k].arg.code \in {TPM2_CC_PolicyPCR, TPM2_CC_PolicyAuthorize}
            /\ \A k \in Segment(j) \cap FailedUnsealSteps : k >= u

\* C16: in a run that unseals a TPM 2.0 Key File, each policy sequence runs in
\* one POLICY session of its own and applies its entries in array order; only
\* PolicyPCR and PolicyAuthorize are accepted, and Unseal is issued only after
\* every entry of the sequence succeeded.  The authPolicy entries are tried in
\* array order, none is tried after one has unsealed, all are tried when none
\* unseals, and the operation succeeds exactly when some sequence unsealed.
Theorem_C16 ==
    RanKeyFile =>
        /\ \A j \in AttemptStarts :
              AppliedInOrder(j) /\ OneFreshSession(j) /\ UnsealAfterAllEntries(j)
        /\ \A j \in AttemptStarts :
              tpm.log[j].cmd = "authPolicy" =>
                  tpm.log[j].arg.index = Cardinality({i \in AttemptStarts : i <= j})
        /\ \A u \in SuccessfulUnseals : \A j \in AttemptStarts : j < u
        /\ (AttemptStarts # {} /\ run.input.tpm2key.has_authPolicy /\ SuccessfulUnseals = {})
               => Cardinality(AttemptStarts) = Len(run.input.tpm2key.authPolicy)
        /\ tpm.ok <=> SuccessfulUnseals # {}

\* a key file with two authPolicy entries: the first sequence applied both of
\* its entries and failed at Unseal, the second unsealed
Witness_C16 ==
    /\ RanKeyFile
    /\ Cardinality(AttemptStarts) = 2
    /\ \E j \in AttemptStarts : /\ Cardinality(CommandsOf(j)) = 2
                                /\ \E u \in Segment(j) : /\ tpm.log[u].cmd = "Esys_Unseal"
                                                         /\ ~tpm.log[u].ok
    /\ SuccessfulUnseals # {}
    /\ tpm.ok

\* a step that leaves every field of the template but the key size alone
OnlyKeyBitsChange == SRK_template' = [SRK_template EXCEPT !.keyBits = SRK_template'.keyBits]

\* the step is one of set_srk_rsa_bits: no operation has run and one more
\* call of the setter is counted
SetterStep == run = NULL /\ run' = NULL /\ sets' = sets + 1

VerOrd(c) ==
    CASE c = "~" -> 126 [] c = "^" -> 94 [] c = "." -> 46 [] c = "!" -> 33
      [] OTHER -> Ord(c)
Ver(cs) == [i \in 1..Len(cs) |-> VerOrd(cs[i])]

\* *a for a pointer into a C string
At(s, i) == IF i <= Len(s) THEN s[i] ELSE 0

isdigit(c) == c \in 48..57
isalnum(c) == isalpha(c) \/ isdigit(c)

cmp(a, b) == a - b

isvalid(a) == isalnum(a) \/ a = 126 \/ a = 45 \/ a = 94 \/ a = 46

RECURSIVE atoi(_, _)
\* the decimal value of the leading digits of a byte sequence
atoi(line, acc) ==
    IF line = <<>> \/ ~isdigit(line[1]) THEN acc
    ELSE atoi(Tail(line), acc * 10 + (line[1] - 48))

SDB_LINE_MAX == 512

\* natoi copies n digits into an uninitialized buffer and does not terminate
\* them; atoi reads on into whatever bytes the buffer held: stale
natoi(a, i, n, stale) ==
    atoi(SubSeq(a, i, i + Min(SDB_LINE_MAX, n) - 1) \o stale, 0)

TruthValue(b) == IF b THEN 1 ELSE 0

RECURSIVE SkipInvalid(_, _)
\* while (*a != '\0' && !isvalid(*a)) a++;
SkipInvalid(s, i) ==
    IF At(s, i) # 0 /\ ~isvalid(At(s, i)) THEN SkipInvalid(s, i + 1) ELSE i

sep == <<126, 45, 94, 46>>

RECURSIVE SeparatorLoop(_, _, _, _, _)
\* for (int i = 0; i < strlen(sep); i++): returns, or the positions after it
SeparatorLoop(a, i, b, j, k) ==
    IF k > Len(sep) THEN [returns |-> FALSE, r |-> 0, a |-> i, b |-> j]
    ELSE IF At(a, i) = sep[k] \/ At(b, j) = sep[k]
    THEN IF cmp(TruthValue(At(a, i) # sep[k]), TruthValue(At(b, j) # sep[k])) # 0
         THEN [returns |-> TRUE,
               r |-> cmp(TruthValue(At(a, i) # sep[k]), TruthValue(At(b, j) # sep[k])),
               a |-> i, b |-> j]
         ELSE SeparatorLoop(a, i + 1, b, j + 1, k + 1)
    ELSE SeparatorLoop(a, i, b, j, k + 1)

RECURSIVE DigitRunEnd(_, _)
\* for (aa = a; isdigit(*aa); aa++);
DigitRunEnd(s, i) == IF isdigit(At(s, i)) THEN DigitRunEnd(s, i + 1) ELSE i

RECURSIVE AlphaRunEnd(_, _)
\* for (aa = a; isalpha(*aa); aa++);
AlphaRunEnd(s, i) == IF isalpha(At(s, i)) THEN AlphaRunEnd(s, i + 1) ELSE i

RECURSIVE strncmp(_, _, _, _, _)
\* strncmp over bytes that contain no terminator: the difference of the
\* first bytes that differ
strncmp(a, i, b, j, n) ==
    IF n = 0 THEN 0
    ELSE IF At(a, i) # At(b, j) THEN At(a, i) - At(b, j)
    ELSE strncmp(a, i + 1, b, j + 1, n - 1)

RECURSIVE vercmp_loop(_, _, _, _, _)

\* the branch for digit runs, aa and bb the ends of the runs
vercmp_digits(a, i, aa, b, j, bb, stale) ==
    IF cmp(TruthValue(i # aa), TruthValue(j # bb)) # 0
    THEN cmp(TruthValue(i # aa), TruthValue(j # bb))
    ELSE IF cmp(natoi(a, i, aa - i, stale.a), natoi(b, j, bb - j, stale.b)) # 0
    THEN cmp(natoi(a, i, aa - i, stale.a), natoi(b, j, bb - j, stale.b))
    ELSE vercmp_loop(a, aa, b, bb, stale)

\* the branch for letter runs
vercmp_letters(a, i, aa, b, j, bb, stale) ==
    IF cmp(strncmp(a, i, b, j, Min(aa - i, bb - j)), 0) # 0
    THEN cmp(strncmp(a, i, b, j, Min(aa - i, bb - j)), 0)
    ELSE IF cmp(aa - i, bb - j) # 0
    THEN cmp(aa - i, bb - j)
    ELSE vercmp_loop(a, aa, b, bb, stale)

vercmp_runs(a, i, b, j, stale) ==
    IF isdigit(At(a, i)) \/ isdigit(At(b, j))
    THEN vercmp_digits(a, i, DigitRunEnd(a, i), b, j, DigitRunEnd(b, j), stale)
    ELSE vercmp_letters(a, i, AlphaRunEnd(a, i), b, j, AlphaRunEnd(b, j), stale)

vercmp_separators(a, b, s, stale) ==
    IF s.returns THEN s.r ELSE vercmp_runs(a, s.a, b, s.b, stale)

\* one turn of for(;;), the pointers past the invalid bytes
vercmp_turn(a, i, b, j, stale) ==
    IF At(a, i) = 0 \/ At(b, j) = 0 THEN cmp(At(a, i), At(b, j))
    ELSE vercmp_separators(a, b, SeparatorLoop(a, i, b, j, 1), stale)

vercmp_loop(a, i, b, j, stale) ==
    vercmp_turn(a, SkipInvalid(a, i), b, SkipInvalid(b, j), stale)

\* vercmp(va, vb); stale.a and stale.b are the bytes natoi finds behind the
\* digits it copied for the first and for the second operand
vercmp(a, b, stale) == vercmp_loop(a, 1, b, 1, stale)

(***************************************************************************)
(* SpecVercmp: the entry sort compares the versions of three boot entries. *)
(***************************************************************************)
VerLen == 1

\* a digit, a letter, the four separators and a byte that is not valid
VerAlphabet == {49, 97, 126, 45, 94, 46, 33}

RECURSIVE VerStrings(_)
VerStrings(n) ==
    IF n = 0 THEN {<<>>}
    ELSE VerStrings(n - 1) \cup
         {Append(s, c) : s \in {x \in VerStrings(n - 1) : Len(x) = n - 1}, c \in VerAlphabet}

NamedVersions ==
    {Ver(<<"1", ".", "0">>), Ver(<<"1", ".", "0", "~", "r", "c", "1">>),
     Ver(<<"1", ".", "0", ".", "1">>), Ver(<<"1", ".", "0", "-", "1">>),
     Ver(<<"1">>), Ver(<<"0", "1">>), Ver(<<"1", "0">>), Ver(<<"1", "~">>)}

Versions == VerStrings(VerLen) \cup NamedVersions
ThirdVersions ==
    {Ver(<<>>), Ver(<<"1">>), Ver(<<"a">>), Ver(<<"~">>), Ver(<<".">>), Ver(<<"!">>),
     Ver(<<"1", "0">>), Ver(<<"1", ".", "0", ".", "1">>)}

\* what natoi may find behind the digits: a byte that ends the number, or a
\* digit left in the buffer
StaleBytes == {<<>>, <<48>>}

InitVercmp ==
    /\ IdleReader
    /\ IdleEvent
    /\ IdlePolicy
    /\ va \in Versions
    /\ vb \in Versions
    /\ vc \in ThirdVersions
    /\ vout = NULL
    /\ IdleSdb

\* the comparisons a sort of the three versions can ask for
Vercmp ==
    /\ vout = NULL
    /\ \E stale \in [a : StaleBytes, b : StaleBytes] :
          vout' = [ab |-> vercmp(va, vb, stale), ba |-> vercmp(vb, va, stale),
                   aa |-> vercmp(va, va, stale), bc |-> vercmp(vb, vc, stale),
                   ac |-> vercmp(va, vc, stale), stale |-> stale]
    /\ UNCHANGED <<rvars, evars, pvars, va, vb, vc, svars>>

NextVercmp == Vercmp

SpecVercmp == InitVercmp /\ [][NextVercmp]_vars

Sign(n) == IF n > 0 THEN 1 ELSE IF n < 0 THEN -1 ELSE 0

\* natoi found a terminating byte behind the digits in every call
CleanBuffer == vout.stale = [a |-> <<>>, b |-> <<>>]

\* b is a followed by '~' and any suffix
TildeSuffix(a, b) ==
    /\ Len(b) > Len(a)
    /\ SubSeq(b, 1, Len(a)) = a
    /\ b[Len(a) + 1] = 126

\* C18: vercmp("1.0", "1.0~rc1") > 0, vercmp("1.0", "1.0.1") < 0 and
\* vercmp("1.0", "1.0-1") < 0, and a version compares newer than the same
\* version followed by a '~' suffix, also when the version is the complete
\* string.
Counterexample_C18 ==
    (vout # NULL /\ CleanBuffer) =>
        /\ (va = Ver(<<"1", ".", "0">>) /\ vb = Ver(<<"1", ".", "0", "~", "r", "c", "1">>))
               => vout.ab > 0
        /\ (va = Ver(<<"1", ".", "0">>) /\ vb = Ver(<<"1", ".", "0", ".", "1">>))
               => vout.ab < 0
        /\ (va = Ver(<<"1", ".", "0">>) /\ vb = Ver(<<"1", ".", "0", "-", "1">>))
               => vout.ab < 0
        /\ TildeSuffix(va, vb) => vout.ab > 0

\* C19: vercmp is a consistent ordering: the sign of vercmp(a, b) is the
\* opposite of the sign of vercmp(b, a), vercmp(a, a) = 0, and
\* vercmp(a, b) <= 0 and vercmp(b, c) <= 0 imply vercmp(a, c) <= 0.
Counterexample_C19 ==
    vout # NULL =>
        /\ Sign(vout.ab) = -Sign(vout.ba)
        /\ vout.aa = 0
        /\ (vout.ab <= 0 /\ vout.bc <= 0) => vout.ac <= 0

IsDigitRun(s) == s # <<>> /\ \A i \in DOMAIN s : isdigit(s[i])

\* C20: two digit runs are compared by numeric value and then, when the
\* values are equal, by the length of the run, so runs that differ only in
\* leading zeros do not compare equal.
Counterexample_C20 ==
    (vout # NULL /\ CleanBuffer /\ IsDigitRun(va) /\ IsDigitRun(vb)) =>
        /\ atoi(va, 0) # atoi(vb, 0) => Sign(vout.ab) = Sign(atoi(va, 0) - atoi(vb, 0))
        /\ (atoi(va, 0) = atoi(vb, 0) /\ Len(va) # Len(vb))
               => Sign(vout.ab) = Sign(Len(va) - Len(vb))


(***************************************************************************)
(* C25: the TPM commands of esys_unseal_authorized.                        *)
(***************************************************************************)
RanAuthorizedUnseal ==
    /\ RanOp("pcr_unseal_secret_new")
    /\ run.platform.name = "oldgrub"
    /\ run.signed_policy # NULL

AuthorizedOrder ==
    <<"Esys_CreatePrimary", "Esys_Load", "Esys_StartAuthSession", "Esys_PolicyPCR",
      "Esys_PolicyGetDigest", "Esys_Hash", "Esys_VerifySignature", "Esys_PolicyAuthorize",
      "Esys_Unseal">>

IsAuthorizedCommand(e) == \E i \in DOMAIN AuthorizedOrder : AuthorizedOrder[i] = e.cmd

\* the commands of AuthorizedOrder the run has issued, in the order of issue
AuthorizedIssued == SelectSeq(tpm.log, IsAuthorizedCommand)

\* position in the log of the command named cmd, 0 when it was not issued
IssuedAt(cmd) ==
    IF \E k \in DOMAIN tpm.log : tpm.log[k].cmd = cmd
    THEN CHOOSE k \in DOMAIN tpm.log : tpm.log[k].cmd = cmd
    ELSE 0

\* the signature check that stands behind an Unseal: VerifySignature accepted
\* the signature over the SHA256 hash of the digest PolicyGetDigest returned
\* for the session PolicyPCR extended, and PolicyAuthorize was given that
\* digest and the ticket of that verification
UnsealIsAuthorized ==
    /\ tpm.log[IssuedAt("Esys_VerifySignature")].ok
    /\ tpm.log[IssuedAt("Esys_PolicyGetDigest")].arg.session
           = tpm.log[IssuedAt("Esys_PolicyPCR")].arg.session
    /\ tpm.log[IssuedAt("Esys_Hash")].arg.hashAlg = TPM2_ALG_SHA256
    /\ tpm.log[IssuedAt("Esys_Hash")].arg.data
           = [policy |-> <<[cc |-> "PolicyPCR",
                            pcrs |-> tpm.log[IssuedAt("Esys_PolicyPCR")].arg.pcrs,
                            pcrDigest |-> tpm.log[IssuedAt("Esys_PolicyPCR")].arg.pcrDigest]>>]
    /\ tpm.log[IssuedAt("Esys_VerifySignature")].arg.digest
           = [hashAlg |-> TPM2_ALG_SHA256, of |-> tpm.log[IssuedAt("Esys_Hash")].arg.data]
    /\ tpm.log[IssuedAt("Esys_VerifySignature")].arg.signature = run.signed_policy.signature
    /\ tpm.log[IssuedAt("Esys_PolicyAuthorize")].arg.session
           = tpm.log[IssuedAt("Esys_PolicyPCR")].arg.session
    /\ tpm.log[IssuedAt("Esys_PolicyAuthorize")].arg.approvedPolicy
           = tpm.log[IssuedAt("Esys_Hash")].arg.data
    /\ tpm.log[IssuedAt("Esys_PolicyAuthorize")].arg.checkTicket.verified
           = tpm.log[IssuedAt("Esys_VerifySignature")].arg.digest
    /\ tpm.log[IssuedAt("Esys_PolicyAuthorize")].arg.checkTicket.by
           = tpm.objs[tpm.log[IssuedAt("Esys_VerifySignature")].arg.key].data
    /\ tpm.log[IssuedAt("Esys_Unseal")].arg.session
           = tpm.log[IssuedAt("Esys_PolicyPCR")].arg.session

\* C25: in a run of the authorized unseal the commands CreatePrimary, Load,
\* StartAuthSession(POLICY), PolicyPCR, PolicyGetDigest, Hash, VerifySignature,
\* PolicyAuthorize, Unseal are issued in this order, each at most once and
\* each only after every earlier step succeeded; Unseal is issued only after
\* VerifySignature accepted the signature over the hash of the policy digest
\* of the session's PolicyPCR and PolicyAuthorize received the ticket of that
\* verification.
Theorem_C25 ==
    RanAuthorizedUnseal =>
        /\ Len(AuthorizedIssued) <= Len(AuthorizedOrder)
        /\ \A i \in DOMAIN AuthorizedIssued : AuthorizedIssued[i].cmd = AuthorizedOrder[i]
        /\ \A k \in DOMAIN tpm.log :
              IsAuthorizedCommand(tpm.log[k]) => \A j \in 1..(k - 1) : tpm.log[j].ok
        /\ \A k \in DOMAIN tpm.log :
              tpm.log[k].cmd = "Esys_StartAuthSession" =>
                  tpm.log[k].arg.sessionType = "TPM2_SE_POLICY"
        /\ IssuedAt("Esys_Unseal") # 0 => UnsealIsAuthorized

\* an authorized unseal that went through to a successful Unseal
Witness_C25 ==
    /\ RanAuthorizedUnseal
    /\ Len(AuthorizedIssued) = Len(AuthorizedOrder)
    /\ tpm.log[IssuedAt("Esys_Unseal")].ok
    /\ UnsealIsAuthorized


(***************************************************************************)
(* C27: the result of an operation and the writing of its output file.     *)
(***************************************************************************)
\* the operations that end by writing an output file with buffer_write_file
RanOutputOp == RanOp("pcr_authorized_policy_create") \/ RanOp("pcr_unseal_secret_new")

\* the writes of the output file that went through
OutputWritten ==
    {k \in DOMAIN tpm.log : /\ tpm.log[k].cmd = "buffer_write_file"
                            /\ tpm.log[k].arg.path = "out"
                            /\ tpm.log[k].ok}

OutputWriteFailed ==
    \E k \in DOMAIN tpm.log : /\ tpm.log[k].cmd = "buffer_write_file"
                              /\ tpm.log[k].arg.path = "out"
                              /\ ~tpm.log[k].ok

\* C27 as stated: pcr_authorized_policy_create and the unseal operations
\* (direct PCR, authorized, TPM 2.0 Key File) report success only if the
\* output file was actually written, and a failing write makes the operation
\* return false.
Counterexample_C27 ==
    RanOutputOp =>
        /\ tpm.ok => OutputWritten # {}
        /\ OutputWriteFailed => ~tpm.ok


(***************************************************************************)
(* C28: the handles given to Esys_FlushContext.                            *)
(***************************************************************************)
FlushCalls == {k \in DOMAIN tpm.log : tpm.log[k].cmd = "Esys_FlushContext"}

\* the handle flushed at position k was handed out by a successful call
\* before k
AcquiredBefore(k) ==
    /\ tpm.log[k].arg.handle \in DOMAIN tpm.objs
    /\ Cardinality({j \in 1..(k - 1) :
                       /\ tpm.log[j].ok
                       /\ tpm.log[j].cmd \in {"Esys_CreatePrimary", "Esys_Load",
                                              "Esys_LoadExternal", "Esys_StartAuthSession",
                                              "Esys_HashSequenceStart"}})
           >= tpm.log[k].arg.handle

\* C28 as stated: Esys_FlushContext is only issued for a handle that was
\* acquired earlier in the same operation and has not been released yet, also
\* when Esys_LoadExternal fails first in esys_create_authorized_policy, and no
\* handle is flushed twice.
Counterexample_C28 ==
    run # NULL =>
        /\ \A k \in FlushCalls : AcquiredBefore(k) /\ tpm.log[k].ok
        /\ \A k, l \in FlushCalls : tpm.log[k].arg.handle = tpm.log[l].arg.handle => k = l


(***************************************************************************)
(* C26: the IPL event with an empty body.                                  *)
(***************************************************************************)
\* IPL events on PCRs with and without a parser: empty bodies, bodies that
\* begin with NUL, text that ends in NUL and text that does not
IplPcrIndexes == {0, 8, 9, 10, 12, 14, 23}
IplBodies ==
    {<<>>, <<0>>, <<0, 109>>, <<0, 109, 0>>, <<109>>, <<109, 0, 109>>,
     Str(<<"(", "h", ")", "/", "b">>), Z(<<"(", "h", ")", "/", "b">>),
     Str(<<"g", "r", "u", "b", "_", "c", "m", "d", ":", " ", "s", "e", "t", " ", "x">>),
     Z(<<"m">>) \o <<0, 0>>}
IplEvents ==
    {NewEvent(p, TPM2_EVENT_IPL, [data |-> b, zeros |-> 0]) : p \in IplPcrIndexes, b \in IplBodies}

InitIpl ==
    /\ recs = [mid |-> <<>>, last |-> "none", lay |-> "v1", cut |-> 0]
    /\ file = MakeFile(recs)
    /\ InitReader
    /\ ev \in IplEvents
    /\ ctx \in {c \in Contexts : c.algo = 11 /\ c.boot_entry = NULL}
    /\ env \in Environments(ev)
    /\ heap = 0
    /\ calls = <<>>
    /\ rehashed = NotRehashed
    /\ IdlePolicy
    /\ IdleVercmp
    /\ IdleSdb

SpecIpl == InitIpl /\ [][NextEvent]_vars

\* the body is not empty and its last byte is not NUL
UnterminatedIpl(e) ==
    ~EmptyIpl(e) /\ BodyByte(e.event_data, e.event_size - 1) # 0

LastCallRehashed == calls # <<>> /\ calls[Len(calls)].fn = "tpm_parsed_event_rehash"

\* C26: an EVENT_IPL event whose body is empty (length 0 or first byte NUL)
\* parses on every PCR, its rehash strategy becomes COPY, and the parsed event
\* that is attached is the zeroed one, with no typed variant and no rehash
\* function, so that tpm_parsed_event_rehash yields no digest; an IPL body
\* that is not empty and does not end in NUL fails to parse on every PCR.
Theorem_C26 ==
    (ev.event_type = TPM2_EVENT_IPL /\ ParseCalls # {}) =>
        /\ EmptyIpl(ev) =>
              /\ ev.__parsed # NULL
              /\ \A i \in ParseCalls : calls[i].ret = ev.__parsed
              /\ ev.rehash_strategy = "EVENT_STRATEGY_COPY"
              /\ ev.__parsed = tpm_parsed_event_new(ev.__parsed.id, TPM2_EVENT_IPL)
              /\ ev.__parsed.rehash = NoRehash
              /\ LastCallRehashed => rehashed = Rehashed(NULL)
        /\ UnterminatedIpl(ev) => LeftUnparsed

\* an empty IPL on a PCR without a parser was parsed and then rehashed
Witness_C26 ==
    /\ ev.event_type = TPM2_EVENT_IPL /\ ev.pcr_index = 23 /\ ev.event_size = 0
    /\ ParseCalls # {}
    /\ ev.__parsed # NULL
    /\ LastCallRehashed
    /\ rehashed.md = NULL

\* an IPL text without the final NUL on the PCR of the grub files was left
\* unparsed
Witness_C26_unterminated ==
    /\ ev.event_type = TPM2_EVENT_IPL /\ ev.pcr_index = 9 /\ UnterminatedIpl(ev)
    /\ ParseCalls # {}
    /\ LeftUnparsed


(***************************************************************************)
(* C30: the indices written in the table of declared algorithms.           *)
(***************************************************************************)
\* C30 as stated: while the Spec ID header is parsed, every write into
\* tcg2_info.algorithms (TPM_EVENT_LOG_MAX_ALGOS entries) uses an index below
\* TPM_EVENT_LOG_MAX_ALGOS, whatever algorithm IDs the header declares; an ID
\* that cannot be stored is skipped.
Counterexample_C30 ==
    \A algo_id \in oob : algo_id < TPM_EVENT_LOG_MAX_ALGOS


(***************************************************************************)
(* SpecVercmpLoop: one call of vercmp, one turn of for(;;) per step.       *)
(***************************************************************************)
\* a = aa; b = bb; at the end of a turn
vercmp_advance_none(i, aa, j, bb) == [returns |-> FALSE, r |-> 0, a |-> i, b |-> j]

vercmp_advance(i, aa, j, bb) == [returns |-> FALSE, r |-> 0, a |-> aa, b |-> bb]

vercmp_return(r, i, j) == [returns |-> TRUE, r |-> r, a |-> i, b |-> j]

\* the branch for digit runs of one turn
turn_digits(a, i, aa, b, j, bb, stale) ==
    IF cmp(TruthValue(i # aa), TruthValue(j # bb)) # 0
    THEN vercmp_return(cmp(TruthValue(i # aa), TruthValue(j # bb)), i, j)
    ELSE IF cmp(natoi(a, i, aa - i, stale.a), natoi(b, j, bb - j, stale.b)) # 0
    THEN vercmp_return(cmp(natoi(a, i, aa - i, stale.a), natoi(b, j, bb - j, stale.b)), i, j)
    ELSE vercmp_advance(i, aa, j, bb)

\* the branch for letter runs of one turn
turn_letters(a, i, aa, b, j, bb) ==
    IF cmp(strncmp(a, i, b, j, Min(aa - i, bb - j)), 0) # 0
    THEN vercmp_return(cmp(strncmp(a, i, b, j, Min(aa - i, bb - j)), 0), i, j)
    ELSE IF cmp(aa - i, bb - j) # 0
    THEN vercmp_return(cmp(aa - i, bb - j), i, j)
    ELSE vercmp_advance(i, aa, j, bb)

turn_runs(a, i, b, j, stale) ==
    IF isdigit(At(a, i)) \/ isdigit(At(b, j))
    THEN turn_digits(a, i, DigitRunEnd(a, i), b, j, DigitRunEnd(b, j), stale)
    ELSE turn_letters(a, i, AlphaRunEnd(a, i), b, j, AlphaRunEnd(b, j))

turn_separators(a, b, s, stale) == IF s.returns THEN s ELSE turn_runs(a, s.a, b, s.b, stale)

turn_compare(a, i, b, j, stale) ==
    IF At(a, i) = 0 \/ At(b, j) = 0 THEN vercmp_return(cmp(At(a, i), At(b, j)), i, j)
    ELSE turn_separators(a, b, SeparatorLoop(a, i, b, j, 1), stale)

\* the body of for(;;) entered with the cursors at i and j:
\* [returns, r, a, b], the cursors where the turn ended
vercmp_body(a, i, b, j, stale) ==
    turn_compare(a, SkipInvalid(a, i), b, SkipInvalid(b, j), stale)

LoopLen == 2
MaxTurns == 8

\* a digit, a letter, the first and the last separator and an invalid byte
LoopAlphabet == {49, 97, 126, 46, 33}

RECURSIVE LoopStrings(_)
LoopStrings(n) ==
    IF n = 0 THEN {<<>>}
    ELSE LoopStrings(n - 1) \cup
         {Append(s, c) : s \in {x \in LoopStrings(n - 1) : Len(x) = n - 1}, c \in LoopAlphabet}

\* runs of separators, of invalid bytes, and separators before the end
LoopNamed ==
    {Ver(<<"1", ".", ".", "~", "~", "a">>), Ver(<<"1", ".", ".", "~", "~">>),
     Ver(<<"!", "!", "1", "!", "!">>), Ver(<<"1", "-", "^", ".">>),
     Ver(<<"a", "1", "a", "1", "a">>), Ver(<<"a", "1", "a", "1", "a", ".">>)}

LoopVersions == LoopStrings(LoopLen) \cup LoopNamed

InitVercmpLoop ==
    /\ IdleReader
    /\ IdleEvent
    /\ IdlePolicy
    /\ IdleVercmp
    /\ IdleSdb

\* vercmp is called: a = va, b = vb
VercmpEnter ==
    /\ vloop = NULL
    /\ \E a \in LoopVersions, b \in LoopVersions, stale \in [a : StaleBytes, b : StaleBytes] :
          vloop' = [va |-> a, vb |-> b, stale |-> stale, a |-> 1, b |-> 1,
                    returned |-> FALSE, r |-> 0, trail |-> <<>>]
    /\ UNCHANGED <<rvars, evars, pvars, vvars, boot, sdbout, doc, entry>>

\* one turn of for(;;); trail keeps the cursors each turn was entered with
VercmpTurn ==
    /\ vloop # NULL
    /\ ~vloop.returned
    /\ Len(vloop.trail) < MaxTurns
    /\ vloop' = [vloop EXCEPT
                   !.a = vercmp_body(vloop.va, vloop.a, vloop.vb, vloop.b, vloop.stale).a,
                   !.b = vercmp_body(vloop.va, vloop.a, vloop.vb, vloop.b, vloop.stale).b,
                   !.returned =
                       vercmp_body(vloop.va, vloop.a, vloop.vb, vloop.b, vloop.stale).returns,
                   !.r = vercmp_body(vloop.va, vloop.a, vloop.vb, vloop.b, vloop.stale).r,
                   !.trail = Append(@, <<vloop.a, vloop.b>>)]
    /\ UNCHANGED <<rvars, evars, pvars, vvars, boot, sdbout, doc, entry>>

NextVercmpLoop == VercmpEnter \/ VercmpTurn

SpecVercmpLoop == InitVercmpLoop /\ [][NextVercmpLoop]_vars

\* the cursors the turns were entered with, and where they are now
Cursors == Append(vloop.trail, <<vloop.a, vloop.b>>)

\* from position k of Cursors to position l no cursor went back and one of
\* them went forward
Advanced(k, l) ==
    /\ Cursors[k][1] <= Cursors[l][1]
    /\ Cursors[k][2] <= Cursors[l][2]
    /\ Cursors[k][1] < Cursors[l][1] \/ Cursors[k][2] < Cursors[l][2]

LoopProgress ==
    /\ \A k \in DOMAIN Cursors :
          /\ Cursors[k][1] \in 1..(Len(vloop.va) + 1)
          /\ Cursors[k][2] \in 1..(Len(vloop.vb) + 1)
    /\ \A k \in DOMAIN Cursors :
          (k + 2 \in DOMAIN Cursors /\ (k + 2 <= Len(vloop.trail) \/ ~vloop.returned))
              => Advanced(k, k + 2)
    /\ Len(vloop.trail) <= Len(vloop.va) + Len(vloop.vb) + 1
    /\ Len(vloop.trail) < MaxTurns
    /\ vloop.returned => vloop.r = vercmp(vloop.va, vloop.vb, vloop.stale)

\* C29: vercmp terminates on every pair of NUL-terminated strings: the
\* cursors never leave the strings, every turn of the main loop that does not
\* return is followed within two turns by an advance of at least one cursor
\* (runs of separators, invalid bytes and a separator before the end of the
\* string included), so that the call has returned after at most
\* strlen(a) + strlen(b) + 1 turns, with the result of vercmp.
Theorem_C29 == vloop # NULL => LoopProgress

\* a comparison that took three turns, the second entered behind a separator
\* that was followed by the end of both strings
Witness_C29 ==
    /\ vloop # NULL
    /\ vloop.returned
    /\ Len(vloop.trail) >= 3
    /\ \E k \in DOMAIN vloop.trail :
          /\ k > 1
          /\ At(vloop.va, vloop.trail[k][1] - 1) \in {126, 45, 94, 46}
          /\ At(vloop.va, vloop.trail[k][1]) = 0
          /\ At(vloop.vb, vloop.trail[k][2]) = 0


(***************************************************************************)
(* SpecTokenId: get_token_id (src/src/sd-boot.c lines 36 to 329).          *)
(***************************************************************************)
\* read_entry_token, read_machine_id: the first line of the file, NULL when
\* the file cannot be opened
read_entry_token(b) == b.entry_token
read_machine_id(b) == b.machine_id

RECURSIVE os_release_line(_, _, _)
\* the while loop of read_os_release: the value of the first line KEY="value"
os_release_line(lines, key, n) ==
    IF n > Len(lines) THEN NullStr
    ELSE IF lines[n].key = key THEN lines[n].value
    ELSE os_release_line(lines, key, n + 1)

\* read_os_release: the value is copied into the one static buffer id and a
\* pointer to that buffer is returned; id is the buffer as the call found it
read_os_release(lines, key, id) ==
    IF os_release_line(lines, key, 1) = NullStr THEN [ret |-> "NULL", id |-> id]
    ELSE [ret |-> "id", id |-> os_release_line(lines, key, 1)]

\* what a pointer returned by read_os_release points to
StringAt(ptr, id) == IF ptr = "NULL" THEN NullStr ELSE id

\* exists_efi_dir
exists_efi_dir(path, efi_dirs) == path # NullStr /\ path \in efi_dirs

\* lines 314 to 315 of get_token_id
token_from_image_id(token_id, id, image_id, efi_dirs) ==
    IF token_id = NullStr /\ exists_efi_dir(image_id, efi_dirs) THEN id ELSE token_id

token_from_id(token_id, id, efi_dirs) ==
    IF token_id = NullStr /\ exists_efi_dir(id, efi_dirs) THEN id ELSE token_id

token_from_machine_id(token_id, machine_id, efi_dirs) ==
    IF token_id = NullStr /\ exists_efi_dir(machine_id, efi_dirs) THEN machine_id ELSE token_id

\* lines 312 to 319 of get_token_id, the four strings as they are read then
token_choice(token_id, id, image_id, machine_id, efi_dirs) ==
    IF machine_id = NullStr THEN NullStr
    ELSE token_from_machine_id(
             token_from_image_id(token_from_id(token_id, id, efi_dirs), id, image_id, efi_dirs),
             machine_id, efi_dirs)

\* the two read_os_release calls: r1 for "ID", r2 for "IMAGE_ID"
token_after_reads(b, r1, r2) ==
    token_choice(read_entry_token(b), StringAt(r1.ret, r2.id), StringAt(r2.ret, r2.id),
                 read_machine_id(b), b.efi_dirs)

get_token_id_image(b, r1) ==
    token_after_reads(b, r1, read_os_release(b.os_release, "IMAGE_ID", r1.id))

get_token_id(b) == get_token_id_image(b, read_os_release(b.os_release, "ID", <<>>))

\* ---- the files and directories ---------------------------------------------
EntryToken == Str(<<"t">>)
OsReleaseId == Str(<<"i">>)
OsReleaseImageId == Str(<<"g">>)
MachineId == Str(<<"m">>)

IdLine == [key |-> "ID", value |-> OsReleaseId]
ImageIdLine == [key |-> "IMAGE_ID", value |-> OsReleaseImageId]
OtherLine == [key |-> "NAME", value |-> Str(<<"o">>)]

TokenFiles ==
    [entry_token : {NullStr, EntryToken},
     os_release : {<<>>, <<OtherLine>>, <<IdLine>>, <<ImageIdLine>>, <<OtherLine, IdLine, ImageIdLine>>,
                   <<ImageIdLine, IdLine>>},
     machine_id : {NullStr, MachineId},
     efi_dirs : SUBSET {EntryToken, OsReleaseId, OsReleaseImageId, MachineId},
     entries : {<<>>}]

InitTokenId ==
    /\ IdleReader
    /\ IdleEvent
    /\ IdlePolicy
    /\ IdleVercmp
    /\ vloop = NULL
    /\ doc = NULL
    /\ entry = NULL
    /\ boot \in TokenFiles
    /\ sdbout = NULL

GetTokenId ==
    /\ boot # NULL
    /\ sdbout = NULL
    /\ sdbout' = [fn |-> "get_token_id", token_id |-> get_token_id(boot)]
    /\ UNCHANGED <<rvars, evars, pvars, vvars, vloop, boot, doc, entry>>

NextTokenId == GetTokenId

SpecTokenId == InitTokenId /\ [][NextTokenId]_vars

(***************************************************************************)
(* C22: the choice of the token id.                                        *)
(***************************************************************************)
\* the four candidates in the order of the claim, as the files give them
Candidates(b) ==
    <<b.entry_token, os_release_line(b.os_release, "ID", 1),
      os_release_line(b.os_release, "IMAGE_ID", 1), b.machine_id>>

ExistingCandidates(b) ==
    {n \in DOMAIN Candidates(b) : Candidates(b)[n] # NullStr /\ Candidates(b)[n] \in b.efi_dirs}

\* the first candidate whose directory exists, NULL when there is none
FirstExisting(b) ==
    IF ExistingCandidates(b) = {} THEN NullStr
    ELSE Candidates(b)[CHOOSE n \in ExistingCandidates(b) : \A k \in ExistingCandidates(b) : n <= k]

\* C22 as stated: the token id is the first of /etc/kernel/entry-token,
\* os-release ID, os-release IMAGE_ID, /etc/machine-id whose directory
\* /boot/efi/<candidate>/ exists: a candidate without a directory is never
\* chosen, the token is the value of the candidate that matched, and an
\* earlier candidate with a directory wins over a later one.
Counterexample_C22 ==
    (sdbout # NULL /\ sdbout.fn = "get_token_id") =>
        /\ sdbout.token_id # NullStr => sdbout.token_id \in boot.efi_dirs
        /\ ExistingCandidates(boot) # {} => sdbout.token_id = FirstExisting(boot)


(***************************************************************************)
(* SpecEntryList: sdb_get_entry_list and sdb_get_next_kernel               *)
(* (src/src/sd-boot.c lines 266 to 414).                                   *)
(***************************************************************************)
RECURSIVE strcmp(_, _, _)
\* strcmp of two C strings from position i on
strcmp(a, b, i) ==
    IF At(a, i) # At(b, i) THEN At(a, i) - At(b, i)
    ELSE IF At(a, i) = 0 THEN 0
    ELSE strcmp(a, b, i + 1)

\* entrycmp; stale as in vercmp
entrycmp(a, b, stale) ==
    IF strcmp(a.sort_key, b.sort_key, 1) # 0 THEN 0 - strcmp(a.sort_key, b.sort_key, 1)
    ELSE IF strcmp(a.machine_id, b.machine_id, 1) # 0
    THEN 0 - strcmp(a.machine_id, b.machine_id, 1)
    ELSE 0 - vercmp(a.version, b.version, stale)

RECURSIVE Perms(_)
\* the orders a set of entries can be listed in
Perms(S) ==
    IF S = {} THEN {<<>>}
    ELSE UNION {{<<x>> \o p : p \in Perms(S \ {x})} : x \in S}

Elements(es) == {es[k] : k \in DOMAIN es}

\* the comparison function orders the elements consistently
ConsistentOrder(S, stale) ==
    /\ \A x, y \in S : Sign(entrycmp(x, y, stale)) = 0 - Sign(entrycmp(y, x, stale))
    /\ \A x, y, z \in S :
          (entrycmp(x, y, stale) <= 0 /\ entrycmp(y, z, stale) <= 0) => entrycmp(x, z, stale) <= 0

SortedBy(es, stale) ==
    \A k, l \in DOMAIN es : k < l => entrycmp(es[k], es[l], stale) <= 0

\* qsort(entries, num_entries, sizeof(entries[0]), entrycmp): some order of
\* the elements that the comparison function accepts; any order when the
\* function contradicts itself, which the behaviour of qsort is undefined for
qsort(es, stale) ==
    IF ConsistentOrder(Elements(es), stale)
    THEN {p \in Perms(Elements(es)) : SortedBy(p, stale)}
    ELSE Perms(Elements(es))

SDB_MAX_ENTRIES == 16

RECURSIVE read_entries(_, _, _, _)
\* the readdir loop of sdb_get_entry_list: the entries whose name begins with
\* the token id, in the order of the listing
read_entries(listing, token_id, n, result) ==
    IF n > Len(listing) \/ Len(result) >= SDB_MAX_ENTRIES THEN result
    ELSE IF ~HasPrefix(listing[n].d_name, token_id)
    THEN read_entries(listing, token_id, n + 1, result)
    ELSE read_entries(listing, token_id, n + 1, Append(result, listing[n].data))

\* sdb_get_entry_list: [ok, entries], the set of results qsort may leave
sdb_get_entry_list(b, token_id, stale) ==
    IF token_id = NullStr THEN {[ok |-> FALSE, entries |-> <<>>]}
    ELSE {[ok |-> TRUE, entries |-> p] :
             p \in qsort(read_entries(b.entries, token_id, 1, <<>>), stale)}

EmptyString == <<>>

\* sdb_get_next_kernel on the entry list r: entry_list was zeroed, so that
\* entries[0].image is the empty string when nothing was found
sdb_get_next_kernel(r) ==
    IF ~r.ok THEN NullStr
    ELSE IF r.entries = <<>> THEN EmptyString
    ELSE r.entries[1].image

\* ---- boot entries -----------------------------------------------------------
Entry(name, sort_key, machine_id, version) ==
    [d_name |-> name,
     data |-> [sort_key |-> sort_key, machine_id |-> machine_id, version |-> version,
               image |-> Str(<<"/", "t", "/">>) \o version \o Str(<<"/", "l", "i", "n", "u", "x">>)]]

VersionEntry(version) ==
    Entry(Str(<<"t", "-">>) \o version, Str(<<"o", "s">>), Str(<<"m">>), version)

V_6_1_0 == <<54, 46, 49, 46, 48>>
V_6_1_0_rc2 == <<54, 46, 49, 46, 48, 126, 114, 99, 50>>
V_6_1_1 == <<54, 46, 49, 46, 49>>
V_5_14_21 == <<53, 46, 49, 52, 46, 50, 49, 45, 49, 53, 48, 53, 48, 48>>
V_6_4_9 == <<54, 46, 52, 46, 57>>
V_6_4_10 == <<54, 46, 52, 46, 49, 48>>

ExampleVersions == {V_6_1_0, V_6_1_0_rc2, V_6_1_1, V_5_14_21}

\* sets of entry files: the versions of the example; two versions of which
\* one has a longer number; entries that differ in sort key and machine id;
\* an entry of another installation
EntrySets ==
    {{VersionEntry(v) : v \in ExampleVersions},
     {VersionEntry(V_6_4_9), VersionEntry(V_6_4_10)},
     {Entry(Str(<<"t", "1">>), Str(<<"a">>), Str(<<"m">>), V_6_1_1),
      Entry(Str(<<"t", "2">>), Str(<<"b">>), Str(<<"m">>), V_6_1_0),
      Entry(Str(<<"t", "0">>), Str(<<"b">>), Str(<<"n">>), V_6_1_0),
      Entry(Str(<<"x", "1">>), Str(<<"c">>), Str(<<"m">>), V_6_4_9)},
     {Entry(Str(<<"x", "1">>), Str(<<"c">>), Str(<<"m">>), V_6_4_9)}}

Listings == UNION {Perms(S) : S \in EntrySets}

EntryFiles ==
    [entry_token : {EntryToken},
     os_release : {<<IdLine>>},
     machine_id : {NullStr, MachineId},
     efi_dirs : {{EntryToken}},
     entries : Listings]

InitEntryList ==
    /\ IdleReader
    /\ IdleEvent
    /\ IdlePolicy
    /\ IdleVercmp
    /\ vloop = NULL
    /\ doc = NULL
    /\ entry = NULL
    /\ boot \in EntryFiles
    /\ sdbout = NULL

SdbGetNextKernel ==
    /\ boot # NULL
    /\ sdbout = NULL
    /\ \E stale \in [a : StaleBytes, b : StaleBytes] :
          \E r \in sdb_get_entry_list(boot, get_token_id(boot), stale) :
              sdbout' = [fn |-> "sdb_get_next_kernel", ok |-> r.ok, entries |-> r.entries,
                         result |-> sdb_get_next_kernel(r), stale |-> stale]
    /\ UNCHANGED <<rvars, evars, pvars, vvars, vloop, boot, doc, entry>>

NextEntryList == SdbGetNextKernel

SpecEntryList == InitEntryList /\ [][NextEntryList]_vars

(***************************************************************************)
(* C21: the order of the boot entries and the next kernel.                 *)
(***************************************************************************)
\* the order of the claim: the digit runs compared by their value
NoStale == [a |-> <<>>, b |-> <<>>]

ListedVersions == {boot.entries[k].data.version : k \in DOMAIN boot.entries}

GotEntries == sdbout # NULL /\ sdbout.fn = "sdb_get_next_kernel" /\ sdbout.ok

\* C21 as stated: after sdb_get_entry_list the entries are in non-increasing
\* order of (sort_key by strcmp, machine_id by strcmp, version by vercmp),
\* sdb_get_next_kernel returns the image of entries[0], and among entries that
\* differ only in version the next kernel is the one with the highest version,
\* 6.1.1 among 6.1.0, 6.1.0~rc2, 6.1.1 and 5.14.21-150500, whatever the order
\* of the directory listing.
Counterexample_C21 ==
    (GotEntries /\ sdbout.entries # <<>>) =>
        /\ SortedBy(sdbout.entries, NoStale)
        /\ sdbout.result = sdbout.entries[1].image
        /\ ListedVersions = ExampleVersions =>
              sdbout.result = VersionEntry(V_6_1_1).data.image


(***************************************************************************)
(* src/sd-boot.c: the systemd JSON policy file.  A JSON value is a record  *)
(* of its type and its content; an object keeps its members in the order   *)
(* in which they were added, as json-c does.  An unsigned 32-bit mask is   *)
(* the set of the positions of its set bits, position 0 the lowest.        *)
(***************************************************************************)
json_object_new_int(n) == [t |-> "int", v |-> n]

json_object_new_string(s) == [t |-> "string", v |-> s]

json_object_new_array == [t |-> "array", v |-> <<>>]

json_object_new_object == [t |-> "object", v |-> <<>>]

json_object_is_type(o, type) == o # NULL /\ o.t = type

\* a value that is no object has no members
HasMember(obj, key) ==
    /\ json_object_is_type(obj, "object")
    /\ \E k \in DOMAIN obj.v : obj.v[k].key = key

json_object_object_get(obj, key) ==
    IF HasMember(obj, key)
    THEN obj.v[CHOOSE k \in DOMAIN obj.v : obj.v[k].key = key].val
    ELSE NULL

\* an existing member keeps its place and takes the new value
json_object_object_add(obj, key, val) ==
    IF HasMember(obj, key)
    THEN [obj EXCEPT !.v = [k \in DOMAIN obj.v |->
                               IF obj.v[k].key = key THEN [key |-> key, val |-> val]
                               ELSE obj.v[k]]]
    ELSE [obj EXCEPT !.v = Append(obj.v, [key |-> key, val |-> val])]

json_object_array_add(arr, val) == [arr EXCEPT !.v = Append(arr.v, val)]

json_object_array_length(arr) == Len(arr.v)

json_object_array_get_idx(arr, i) == arr.v[i + 1]

\* *mask_ret |= (1 << pcr_index)
SetBit(mask, j) == mask \cup {j}

\* pcr_mask >>= 1
ShiftRight(mask) == {k - 1 : k \in mask \ {0}}

RECURSIVE get_pcr_mask_loop(_, _, _)
get_pcr_mask_loop(pcrs, i, mask) ==
    IF i >= json_object_array_length(pcrs) THEN [ret |-> TRUE, mask_ret |-> mask]
    ELSE LET item == json_object_array_get_idx(pcrs, i)
         IN  IF ~json_object_is_type(item, "int") THEN [ret |-> FALSE, mask_ret |-> mask]
             ELSE IF item.v < 0 \/ item.v >= 32 THEN [ret |-> FALSE, mask_ret |-> mask]
             ELSE get_pcr_mask_loop(pcrs, i + 1, SetBit(mask, item.v))

sdb_policy_entry_get_pcr_mask(e) ==
    LET pcrs == json_object_object_get(e, "pcrs")
    IN  IF pcrs = NULL \/ ~json_object_is_type(pcrs, "array")
        THEN [ret |-> FALSE, mask_ret |-> {}]
        ELSE get_pcr_mask_loop(pcrs, 0, {})

\* for (pcr_index = 1; pcr_mask; pcr_index++, pcr_mask >>= 1)
RECURSIVE set_pcr_mask_loop(_, _, _)
set_pcr_mask_loop(pcrs, pcr_index, pcr_mask) ==
    IF pcr_mask = {} THEN pcrs
    ELSE set_pcr_mask_loop(IF 0 \in pcr_mask
                           THEN json_object_array_add(pcrs, json_object_new_int(pcr_index))
                           ELSE pcrs,
                           pcr_index + 1, ShiftRight(pcr_mask))

sdb_policy_entry_set_pcr_mask(e, pcr_mask) ==
    json_object_object_add(e, "pcrs", set_pcr_mask_loop(json_object_new_array, 1, pcr_mask))

(***************************************************************************)
(* Writing a PCR mask into an entry and reading it back.                   *)
(***************************************************************************)
MaskBits == 4

\* the low masks, and masks with the top bit of the 32-bit word
PcrMasks ==
    (SUBSET (0 .. MaskBits - 1)) \cup {m \cup {31} : m \in SUBSET (0 .. 1)} \cup {0 .. 31}

PolOnly == json_object_object_add(json_object_new_object, "pol", json_object_new_string(<<48, 49>>))

WithPcrs(pcrs) == json_object_object_add(PolOnly, "pcrs", pcrs)

ArrayOf(items) == [t |-> "array", v |-> items]

\* entries as a file may hold them: without "pcrs", with a valid array, with
\* an index out of range, with an item or a member of the wrong type
PcrEntries ==
    { PolOnly,
      WithPcrs(ArrayOf(<<json_object_new_int(0), json_object_new_int(7)>>)),
      WithPcrs(ArrayOf(<<json_object_new_int(32)>>)),
      WithPcrs(ArrayOf(<<json_object_new_string(<<55>>)>>)),
      WithPcrs(json_object_new_string(<<55>>)) }

InitPcrMask ==
    /\ IdleReader
    /\ IdleEvent
    /\ IdlePolicy
    /\ IdleVercmp
    /\ vloop = NULL
    /\ boot = NULL
    /\ sdbout = NULL
    /\ doc = NULL
    /\ entry \in {[obj |-> e, pcr_mask |-> m, written |-> FALSE, read |-> FALSE,
                   ret |-> FALSE, mask_ret |-> {}] : e \in PcrEntries, m \in PcrMasks}

SetPcrMask ==
    /\ entry # NULL
    /\ ~entry.written
    /\ ~entry.read
    /\ entry' = [entry EXCEPT !.obj = sdb_policy_entry_set_pcr_mask(entry.obj, entry.pcr_mask),
                              !.written = TRUE]
    /\ UNCHANGED <<rvars, evars, pvars, vvars, vloop, boot, sdbout, doc>>

GetPcrMask ==
    /\ entry # NULL
    /\ ~entry.read
    /\ LET r == sdb_policy_entry_get_pcr_mask(entry.obj)
       IN  entry' = [entry EXCEPT !.read = TRUE, !.ret = r.ret, !.mask_ret = r.mask_ret]
    /\ UNCHANGED <<rvars, evars, pvars, vvars, vloop, boot, sdbout, doc>>

NextPcrMask == SetPcrMask \/ GetPcrMask

SpecPcrMask == InitPcrMask /\ [][NextPcrMask]_vars

(***************************************************************************)
(* C24: the PCR mask round trip.                                           *)
(***************************************************************************)
ListedPcrs(e) ==
    LET pcrs == json_object_object_get(e, "pcrs")
    IN  {pcrs.v[i].v : i \in DOMAIN pcrs.v}

WrittenAndRead == entry # NULL /\ entry.written /\ entry.read

\* C24 as stated: for every 32-bit pcr_mask the "pcrs" array written by
\* sdb_policy_entry_set_pcr_mask lists exactly the indices of the bits set in
\* the mask, bit 0 as index 0, every listed index lies in [0, 31], and
\* sdb_policy_entry_get_pcr_mask applied to the written entry succeeds and
\* returns the original mask.
Counterexample_C24 ==
    WrittenAndRead =>
        /\ ListedPcrs(entry.obj) = entry.pcr_mask
        /\ ListedPcrs(entry.obj) \subseteq 0 .. 31
        /\ entry.ret
        /\ entry.mask_ret = entry.pcr_mask


(***************************************************************************)
(* src/sd-boot.c: sdb_policy_find_or_create_entry and                      *)
(* sdb_policy_file_add_entry.  The printers of util.c are not part of the  *)
(* sources at hand; they are modelled as lower-case hexadecimal, two       *)
(* digits a byte, and as base64 with padding.                              *)
(***************************************************************************)
HexDigit(n) == IF n < 10 THEN 48 + n ELSE 87 + n

RECURSIVE print_hex_string(_)
print_hex_string(bytes) ==
    IF bytes = <<>> THEN <<>>
    ELSE <<HexDigit(Head(bytes) \div 16), HexDigit(Head(bytes) % 16)>>
             \o print_hex_string(Tail(bytes))

Base64Char(n) ==
    IF n < 26 THEN 65 + n
    ELSE IF n < 52 THEN 71 + n
    ELSE IF n < 62 THEN n - 4
    ELSE IF n = 62 THEN 43 ELSE 47

RECURSIVE print_base64_value(_)
print_base64_value(bytes) ==
    IF bytes = <<>> THEN <<>>
    ELSE IF Len(bytes) = 1
    THEN <<Base64Char(bytes[1] \div 4), Base64Char((bytes[1] % 4) * 16), 61, 61>>
    ELSE IF Len(bytes) = 2
    THEN <<Base64Char(bytes[1] \div 4),
           Base64Char((bytes[1] % 4) * 16 + bytes[2] \div 16),
           Base64Char((bytes[2] % 16) * 4), 61>>
    ELSE <<Base64Char(bytes[1] \div 4),
           Base64Char((bytes[1] % 4) * 16 + bytes[2] \div 16),
           Base64Char((bytes[2] % 16) * 4 + bytes[3] \div 64),
           Base64Char(bytes[3] % 64)>>
             \o print_base64_value(SubSeq(bytes, 4, Len(bytes)))

tolower(c) == IF c \in 65 .. 90 THEN c + 32 ELSE c

\* zero when the strings are equal without regard to the case of letters
strcasecmp(a, b) ==
    IF Len(a) = Len(b) /\ \A i \in DOMAIN a : tolower(a[i]) = tolower(b[i]) THEN 0 ELSE 1

RECURSIVE DecimalText(_)
DecimalText(n) == IF n < 10 THEN <<48 + n>> ELSE Append(DecimalText(n \div 10), 48 + (n % 10))

\* json-c: the text of a string; for a value of another type its JSON text,
\* the digits of a non-negative integer, a text in brackets for an array or
\* an object
json_object_get_string(o) ==
    IF o = NULL THEN NULL
    ELSE IF o.t = "string" THEN o.v
    ELSE IF o.t = "int" THEN DecimalText(o.v)
    ELSE IF o.t = "array" THEN <<91, 32, 93>>
    ELSE <<123, 32, 125>>

\* the index of the first entry of the bank that matches, or count
RECURSIVE find_entry(_, _, _)
find_entry(bank_obj, formatted_policy, i) ==
    IF i >= json_object_array_length(bank_obj) THEN i
    ELSE LET e == json_object_array_get_idx(bank_obj, i)
             child == json_object_object_get(e, "pol")
             entry_policy == json_object_get_string(child)
         IN  IF e = NULL \/ child = NULL \/ entry_policy = NULL
             THEN find_entry(bank_obj, formatted_policy, i + 1)
             ELSE IF strcasecmp(entry_policy, formatted_policy) = 0 THEN i
             ELSE find_entry(bank_obj, formatted_policy, i + 1)

\* a mutant of sdb_policy_find_or_create_entry: a new entry at every call
sdb_policy_find_or_create_entry_always_create(bank_obj, policy) ==
    [bank |-> json_object_array_add(bank_obj,
                 json_object_object_add(json_object_new_object, "pol",
                                        json_object_new_string(print_hex_string(policy)))),
     idx |-> json_object_array_length(bank_obj)]

\* the bank after the call, and the index of the entry returned
sdb_policy_find_or_create_entry(bank_obj, policy) ==
    LET formatted_policy == print_hex_string(policy)
        i == find_entry(bank_obj, formatted_policy, 0)
    IN  IF i < json_object_array_length(bank_obj)
        THEN [bank |-> bank_obj, idx |-> i]
        ELSE [bank |-> json_object_array_add(bank_obj,
                          json_object_object_add(json_object_new_object, "pol",
                                                 json_object_new_string(formatted_policy))),
              idx |-> i]

\* a file: what access(2) says of it, and the JSON value json_object_from_file
\* reads from it, NULL when the content does not parse
File(errno, json) == [errno |-> errno, json |-> json]

\* the entry found or created, with "pcrs", "pfkp" and "sig" set
updated_entry(e, pcr_mask, fingerprint, signature) ==
    json_object_object_add(
        json_object_object_add(
            sdb_policy_entry_set_pcr_mask(e, pcr_mask),
            "pfkp", json_object_new_string(print_hex_string(fingerprint))),
        "sig", json_object_new_string(print_base64_value(signature)))

\* the document with the entry of the algorithm's bank found or created and updated
updated_doc(d, algo_name, pcr_mask, fingerprint, policy, signature) ==
    LET got == json_object_object_get(d, algo_name)
        with_bank == IF got = NULL
                     THEN json_object_object_add(d, algo_name, json_object_new_array)
                     ELSE d
        bank_obj == json_object_object_get(with_bank, algo_name)
        found == sdb_policy_find_or_create_entry(bank_obj, policy)
        e == updated_entry(json_object_array_get_idx(found.bank, found.idx),
                           pcr_mask, fingerprint, signature)
        bank == [found.bank EXCEPT !.v[found.idx + 1] = e]
    IN  json_object_object_add(with_bank, algo_name, bank)

\* written: what json_object_to_file does, "ok", "open" when the file cannot
\* be opened for writing, "write" when writing fails after the file was
\* truncated
sdb_policy_file_add_entry(f, algo_name, pcr_mask, fingerprint, policy, signature, written) ==
    IF f.errno = "OK" /\ f.json = NULL THEN [ok |-> FALSE, file |-> f]
    ELSE IF f.errno = "OK" /\ ~json_object_is_type(f.json, "object")
    THEN [ok |-> FALSE, file |-> f]
    ELSE IF f.errno # "OK" /\ f.errno # "ENOENT" THEN [ok |-> FALSE, file |-> f]
    ELSE LET d == IF f.errno = "OK" THEN f.json ELSE json_object_new_object
             bank_obj == json_object_object_get(d, algo_name)
         IN  IF bank_obj # NULL /\ ~json_object_is_type(bank_obj, "array")
             THEN [ok |-> FALSE, file |-> f]
             ELSE IF written = "open" THEN [ok |-> FALSE, file |-> f]
             ELSE IF written = "write" THEN [ok |-> FALSE, file |-> File("OK", NULL)]
             ELSE [ok |-> TRUE,
                   file |-> File("OK", updated_doc(d, algo_name, pcr_mask, fingerprint,
                                                   policy, signature))]

(***************************************************************************)
(* Calls of sdb_policy_file_add_entry on one file.  doc holds the file and *)
(* the calls made so far, each with the file before and after it.          *)
(***************************************************************************)
MaxAddCalls == 2

AlgoNames == {"sha256", "sha1"}

Policies == {<<171>>, <<18>>}

\* pcr mask, fingerprint and signature of a call
Payloads ==
    { [pcr_mask |-> {0, 7}, fingerprint |-> <<1, 35>>, signature |-> <<77>>],
      [pcr_mask |-> {4}, fingerprint |-> <<205>>, signature |-> <<77, 97, 110>>] }

AddEntryArgs == [algo_name : AlgoNames, policy : Policies, payload : Payloads]

StringMember(key, text) == [key |-> key, val |-> json_object_new_string(text)]

Object(members) == [t |-> "object", v |-> members]

\* an entry as another writer of the file leaves it: capital hex digits, "pkfp"
ForeignEntry(pol) ==
    Object(<<[key |-> "pcrs", val |-> ArrayOf(<<json_object_new_int(7)>>)],
             StringMember("pkfp", <<48, 49>>),
             [key |-> "pol", val |-> pol],
             StringMember("sig", <<81, 81, 61, 61>>)>>)

\* the file absent, unreadable, not JSON, not an object, and documents: empty,
\* with a bank that is no array, with entries of another writer, with an item
\* that is no entry and two entries of one policy, with a "pol" that is a number
Documents ==
    { File("ENOENT", NULL),
      File("EACCES", NULL),
      File("OK", NULL),
      File("OK", json_object_new_array),
      File("OK", json_object_new_object),
      File("OK", Object(<<StringMember("sha256", <<120>>)>>)),
      File("OK", Object(<<[key |-> "sha256",
                           val |-> ArrayOf(<<ForeignEntry(json_object_new_string(<<65, 66>>))>>)],
                          [key |-> "sha1",
                           val |-> ArrayOf(<<ForeignEntry(json_object_new_string(<<49, 50>>))>>)]>>)),
      File("OK", Object(<<[key |-> "sha256",
                           val |-> ArrayOf(<<Object(<<StringMember("sig", <<81>>)>>),
                                             json_object_new_int(5),
                                             ForeignEntry(json_object_new_string(<<97, 98>>)),
                                             ForeignEntry(json_object_new_string(<<97, 98>>))>>)]>>)),
      File("OK", Object(<<[key |-> "sha1",
                           val |-> ArrayOf(<<ForeignEntry(json_object_new_int(12))>>)]>>)) }

InitPolicyFile ==
    /\ IdleReader
    /\ IdleEvent
    /\ IdlePolicy
    /\ IdleVercmp
    /\ vloop = NULL
    /\ boot = NULL
    /\ sdbout = NULL
    /\ entry = NULL
    /\ doc \in {[file |-> f, calls |-> <<>>] : f \in Documents}

AddEntry ==
    /\ doc # NULL
    /\ Len(doc.calls) < MaxAddCalls
    /\ \E args \in AddEntryArgs, written \in {"ok", "open", "write"} :
          LET r == sdb_policy_file_add_entry(doc.file, args.algo_name, args.payload.pcr_mask,
                                             args.payload.fingerprint, args.policy,
                                             args.payload.signature, written)
          IN  doc' = [file |-> r.file,
                      calls |-> Append(doc.calls, [args |-> args, ok |-> r.ok,
                                                   before |-> doc.file, after |-> r.file])]
    /\ UNCHANGED <<rvars, evars, pvars, vvars, vloop, boot, sdbout, entry>>

NextPolicyFile == AddEntry

SpecPolicyFile == InitPolicyFile /\ [][NextPolicyFile]_vars

(***************************************************************************)
(* C23: adding the same entry twice.                                       *)
(***************************************************************************)
\* the document a call works on, and the entries of an algorithm in it
DocOf(f) == IF f.errno = "ENOENT" THEN json_object_new_object ELSE f.json

BankEntries(f, algo_name) ==
    LET bank_obj == json_object_object_get(DocOf(f), algo_name)
    IN  IF bank_obj = NULL THEN <<>> ELSE bank_obj.v

\* calls k and k + 1 have the same arguments and both return true
SameTwice(k) ==
    /\ k \in DOMAIN doc.calls
    /\ k + 1 \in DOMAIN doc.calls
    /\ doc.calls[k].args = doc.calls[k + 1].args
    /\ doc.calls[k].ok
    /\ doc.calls[k + 1].ok

\* the entry's "pol" is the string of the policy's hex digits
PolIs(e, policy) ==
    LET pol == json_object_object_get(e, "pol")
    IN  json_object_is_type(pol, "string") /\ pol.v = print_hex_string(policy)

\* the entry's "pol" reads as the policy's hex digits, capital or small
PolReadsAs(e, policy) ==
    LET text == json_object_get_string(json_object_object_get(e, "pol"))
    IN  /\ text # NULL
        /\ [i \in DOMAIN text |-> tolower(text[i])] = print_hex_string(policy)

CountPolIs(es, policy) == Cardinality({i \in DOMAIN es : PolIs(es[i], policy)})

CountPolReadsAs(es, policy) == Cardinality({i \in DOMAIN es : PolReadsAs(es[i], policy)})

OthersByPolIs(es, policy) ==
    LET Other(e) == ~PolIs(e, policy) IN SelectSeq(es, Other)

OthersByPolReadsAs(es, policy) ==
    LET Other(e) == ~PolReadsAs(e, policy) IN SelectSeq(es, Other)

OtherBanksKept(c) ==
    \A other \in AlgoNames \ {c.args.algo_name} :
        BankEntries(c.after, other) = BankEntries(c.before, other)

Witness_C23_capitals ==
    /\ doc # NULL
    /\ SameTwice(1)
    /\ CountPolReadsAs(BankEntries(doc.calls[1].before, doc.calls[1].args.algo_name),
                       doc.calls[1].args.policy) = 1
    /\ CountPolIs(BankEntries(doc.calls[1].before, doc.calls[1].args.algo_name),
                  doc.calls[1].args.policy) = 0

====
